---------------------------- MODULE Spec2Model ----------------------------
(***************************************************************************)
(* Run store and run lifecycle handlers of hgc-test-infrastructure.        *)
(*                                                                         *)
(*   src/src/utils/dynamodb.py       DynamoDBClient (the run store)        *)
(*   src/src/utils/github.py         GitHubClient (dispatch, signature)    *)
(*   src/src/api.py                  FastAPI entry points                  *)
(*   src/src/handlers/*.py           Lambda entry points                   *)
(*                                                                         *)
(* Strings are the strings the code builds.  A Python None in a string     *)
(* attribute is the value None below; an optional number (duration) is     *)
(* <<>> for None and <<n>> for n.  A dict is a function whose DOMAIN is    *)
(* the set of its keys.                                                    *)
(***************************************************************************)
EXTENDS Integers, Sequences, FiniteSets, TLC

VARIABLES
    table,      \* the DynamoDB table: the set of its items
    now,        \* the wall clock, in ticks
    uuidCtr,    \* how many uuid4 values have been drawn
    last,       \* the last direct store call that returned, with its result
    api,        \* the POST /trigger-tests request in flight (api.py)
    wh,         \* the Lambda webhook request in flight
    resp        \* the last response a handler returned

vars == <<table, now, uuidCtr, last, api, wh, resp>>

-----------------------------------------------------------------------------
(* Bounds of the model. *)

MaxTime == 2
TicksPerSecond == 2
MaxItems == 2
MaxUuid == 2

(* Program constants. *)

AcceptedStatusCode == 204
ServerCap == 100
DefaultLimit == 25

None == "None"

Ticks == 0..MaxTime
Seconds == 0..(MaxTime \div TicksPerSecond)

\* As valid_brands, with a brand the handlers do not know.
valid_brands_with_unknown == <<"mweb", "webafrica", "unknown">>

valid_brands == <<"mweb", "webafrica">>
api_valid_environments == <<"prod", "staging">>
lambda_valid_environments == <<"prod", "staging", "dev">>
valid_statuses ==
    <<"pending", "triggered", "running", "passed", "failed", "cancelled", "completed">>

Range(s) == {s[i] : i \in DOMAIN s}

TerminalStatuses == {"passed", "failed", "cancelled", "completed"}

-----------------------------------------------------------------------------
(* Time.  The clock counts ticks of 1/TicksPerSecond second from            *)
(* 2025-06-03T14:00:00 UTC.                                                 *)

Pad(n, width) ==
    LET s == ToString(n)
        zeros == [k \in 0..6 |->
                    CASE k = 0 -> "" [] k = 1 -> "0" [] k = 2 -> "00"
                      [] k = 3 -> "000" [] k = 4 -> "0000" [] k = 5 -> "00000"
                      [] OTHER -> "000000"]
    IN  IF Len(s) >= width THEN s ELSE zeros[width - Len(s)] \o s

SecondOf(t) == t \div TicksPerSecond
MicrosecondOf(t) == (t % TicksPerSecond) * (1000000 \div TicksPerSecond)

\* datetime.now(timezone.utc).isoformat(): the fraction is left out when the
\* microsecond is 0.
isoformat(t) ==
    "2025-06-03T14:00:" \o Pad(SecondOf(t), 2)
        \o (IF MicrosecondOf(t) = 0 THEN "" ELSE "." \o Pad(MicrosecondOf(t), 6))
        \o "+00:00"

\* datetime.now(timezone.utc).strftime('%Y%m%d-%H%M%S')
strftime(t) == "20250603-1400" \o Pad(SecondOf(t), 2)

\* int(time.time()) + (90 * 24 * 60 * 60), in seconds from the model's epoch
ttl_of(t) == SecondOf(t) + (90 * 24 * 60 * 60)

-----------------------------------------------------------------------------
(* Run identifiers. *)

\* Identifiers a caller supplies, in ascending byte order.
CustomRunIdsInOrder == <<"run-a", "run-b">>
CustomRunIds == Range(CustomRunIdsInOrder)

\* f"{request.brand}-{request.environment}-{...strftime('%Y%m%d-%H%M%S')}"
generated_run_id(brand, environment, t) ==
    brand \o "-" \o environment \o "-" \o strftime(t)

\* str(uuid.uuid4()): the n-th value drawn; no two draws are equal.
uuid4(n) == "uuid-" \o ToString(n)

EnvironmentsInOrder == <<"dev", "prod", "staging">>

GeneratedInOrder(brand) ==
    LET nsec == Cardinality(Seconds)
    IN  [k \in 1..(Len(EnvironmentsInOrder) * nsec) |->
            generated_run_id(brand, EnvironmentsInOrder[((k - 1) \div nsec) + 1],
                             ((k - 1) % nsec) * TicksPerSecond)]

\* Every run identifier a sort key can end with, in ascending byte order:
\* "mweb-..." < "run-..." < "uuid-..." < "webafrica-...".
RunIdsInOrder ==
    GeneratedInOrder("mweb") \o CustomRunIdsInOrder
        \o [k \in 1..(MaxUuid + 1) |-> uuid4(k)] \o GeneratedInOrder("webafrica")

-----------------------------------------------------------------------------
(* The DynamoDB table (boto3 Table): items keyed by (pk, sk), with the      *)
(* index GSI1 on (gsi1pk, gsi1sk), as tests/conftest.py creates it.         *)

KeyAttributes == {"pk", "sk", "gsi1pk", "gsi1sk"}

make_pk(brand) == "BRAND#" \o brand
make_sk(timestamp, run_id) == "RUN#" \o timestamp \o "#" \o run_id
make_gsi1pk(status) == "STATUS#" \o status
make_gsi1sk(timestamp) == "TIMESTAMP#" \o timestamp

\* The instant and the run identifier a sort key was built from.
SkParts ==
    [sk \in {make_sk(isoformat(t), RunIdsInOrder[k]) :
                t \in Ticks, k \in DOMAIN RunIdsInOrder} |->
        CHOOSE p \in Ticks \X DOMAIN RunIdsInOrder :
            make_sk(isoformat(p[1]), RunIdsInOrder[p[2]]) = sk]

\* DynamoDB orders a partition by the bytes of sk.  isoformat's strings
\* order as their instants do ('+' sorts before '.'), so "RUN#<ts>#<runId>"
\* orders by instant, then by run identifier.
sk_before(a, b) ==
    \/ SkParts[a][1] < SkParts[b][1]
    \/ SkParts[a][1] = SkParts[b][1] /\ SkParts[a][2] < SkParts[b][2]

\* Table.put_item: the item replaces the one with its (pk, sk), if any.
put_item(tbl, item) ==
    {i \in tbl : ~(i.pk = item.pk /\ i.sk = item.sk)} \cup {item}

\* Table.query(pk = :pk AND begins_with(sk, 'RUN#'), FilterExpression
\* runId = :run_id): the matching items; every sort key begins with RUN#.
query_run(tbl, brand, run_id) ==
    {i \in tbl : /\ i.pk = make_pk(brand)
                 /\ i.sk \in DOMAIN SkParts
                 /\ "runId" \in DOMAIN i
                 /\ i.runId = run_id}

\* As first_item, taking the last match in sort-key order.
first_item_latest(items) ==
    CHOOSE i \in items : \A j \in items : j = i \/ sk_before(j.sk, i.sk)

\* response['Items'][0]: the first match in sort-key order.
first_item(items) ==
    CHOOSE i \in items : \A j \in items : j = i \/ sk_before(i.sk, j.sk)

\* get_test_run: <<item>> or <<>> for None.
get_test_run(tbl, brand, run_id) ==
    LET items == query_run(tbl, brand, run_id)
    IN  IF items = {} THEN <<>> ELSE <<first_item(items)>>

Get(d, key, default) == IF key \in DOMAIN d THEN d[key] ELSE default

OptionalFields == {"duration", "tests", "reportUrl", "artifacts"}

\* The item put_test_run builds at instant t.
put_item_of(run_data, t) ==
    LET timestamp == isoformat(t)
        status == Get(run_data, "status", "pending")
    IN  [k \in OptionalFields \cap DOMAIN run_data |-> run_data[k]] @@
        [pk |-> make_pk(run_data.brand),
         sk |-> make_sk(timestamp, run_data.runId),
         gsi1pk |-> make_gsi1pk(status),
         gsi1sk |-> make_gsi1sk(timestamp),
         runId |-> run_data.runId,
         brand |-> run_data.brand,
         environment |-> run_data.environment,
         status |-> status,
         timestamp |-> timestamp,
         githubRunId |-> Get(run_data, "githubRunId", None),
         commit |-> Get(run_data, "commit", None),
         actor |-> Get(run_data, "actor", None),
         workflow |-> Get(run_data, "workflow", None),
         repository |-> Get(run_data, "repository", None),
         ttl |-> ttl_of(t)]

\* The dict a store call returns; item is <<>> when it carries none.
Failure(error) == [success |-> FALSE, error |-> error, item |-> <<>>]
Success(item) == [success |-> TRUE, error |-> None, item |-> <<item>>]

\* As put_test_run, for a store that keeps the item of a put it fails.
put_test_run_partial(tbl, run_data, t, storage_ok) ==
    LET item == put_item_of(run_data, t)
    IN  IF storage_ok
        THEN [table |-> put_item(tbl, item), result |-> Success(item)]
        ELSE [table |-> put_item(tbl, item), result |-> Failure("storage error")]

\* put_test_run: storage_ok is whether Table.put_item returns or raises.
put_test_run(tbl, run_data, t, storage_ok) ==
    LET item == put_item_of(run_data, t)
    IN  IF storage_ok
        THEN [table |-> put_item(tbl, item), result |-> Success(item)]
        ELSE [table |-> tbl, result |-> Failure("storage error")]

\* As extra_keys, without the filter on the key attributes.
extra_keys_unfiltered(additional_data) == DOMAIN additional_data

\* The attributes update_test_run_status adds to its SET expression from
\* additional_data.
extra_keys(additional_data) == DOMAIN additional_data \ KeyAttributes

\* How often the UpdateExpression "SET #status = :status, gsi1pk = :gsi1pk
\* [, #key = :key]..." assigns to the attribute path.
set_count(additional_data, path) ==
    (IF path \in {"status", "gsi1pk"} THEN 1 ELSE 0)
        + (IF path \in extra_keys(additional_data) THEN 1 ELSE 0)

\* As expression_attribute_values, with the index key left out of the SET.
expression_attribute_values_no_mirror(status, additional_data) ==
    [k \in extra_keys(additional_data) |-> additional_data[k]] @@
    [status |-> status]

\* expression_attribute_values, by attribute: an entry of additional_data
\* overwrites the ':status' the function set first.
expression_attribute_values(status, additional_data) ==
    [k \in extra_keys(additional_data) |-> additional_data[k]] @@
    [status |-> status, gsi1pk |-> make_gsi1pk(status)]

\* As paths_overlap, for a store that lets the last assignment to a path win.
paths_overlap_never(additional_data) == FALSE

\* DynamoDB refuses an UpdateExpression that assigns to one path twice
\* (ValidationException: "Two document paths overlap with each other").
paths_overlap(additional_data) ==
    \E path \in {"status", "gsi1pk"} \cup extra_keys(additional_data) :
        set_count(additional_data, path) > 1

\* Table.update_item(Key, SET ...): sets the attributes of the item with the
\* key, creating the item when the table holds none with that key.
update_item(tbl, pk, sk, values) ==
    LET old == {i \in tbl : i.pk = pk /\ i.sk = sk}
        base == IF old = {} THEN [pk |-> pk, sk |-> sk] ELSE CHOOSE i \in old : TRUE
        new == values @@ base
    IN  [table |-> (tbl \ old) \cup {new}, item |-> new]

\* As update_write, with the update conditional on the status changing.
update_write_if_changed(tbl, existing_item, status, additional_data, storage_ok) ==
    IF ~storage_ok
    THEN [table |-> tbl, result |-> Failure("storage error")]
    ELSE IF paths_overlap(additional_data)
    THEN [table |-> tbl, result |-> Failure("ValidationException")]
    ELSE IF existing_item.status = status
    THEN [table |-> tbl, result |-> Failure("ConditionalCheckFailedException")]
    ELSE LET u == update_item(tbl, existing_item.pk, existing_item.sk,
                              expression_attribute_values(status, additional_data))
         IN  [table |-> u.table, result |-> Success(u.item)]

\* update_test_run_status after its lookup found existing_item: builds the
\* expression and calls Table.update_item; any exception becomes a failure
\* result.
update_write(tbl, existing_item, status, additional_data, storage_ok) ==
    IF ~storage_ok
    THEN [table |-> tbl, result |-> Failure("storage error")]
    ELSE IF paths_overlap(additional_data)
    THEN [table |-> tbl, result |-> Failure("ValidationException")]
    ELSE LET u == update_item(tbl, existing_item.pk, existing_item.sk,
                              expression_attribute_values(status, additional_data))
         IN  [table |-> u.table, result |-> Success(u.item)]

\* As update_test_run_status, with the update sent for a record the lookup
\* did not find, under the key the record would have had at instant 0.
update_test_run_status_upsert(tbl, brand, run_id, status, additional_data, storage_ok) ==
    LET existing == get_test_run(tbl, brand, run_id)
    IN  update_write(tbl,
                     IF existing = <<>>
                     THEN [pk |-> make_pk(brand), sk |-> make_sk(isoformat(0), run_id)]
                     ELSE existing[1],
                     status, additional_data, storage_ok)

\* update_test_run_status, its lookup and its write in one step.
update_test_run_status(tbl, brand, run_id, status, additional_data, storage_ok) ==
    LET existing == get_test_run(tbl, brand, run_id)
    IN  IF existing = <<>>
        THEN [table |-> tbl, result |-> Failure("Test run not found")]
        ELSE update_write(tbl, existing[1], status, additional_data, storage_ok)

-----------------------------------------------------------------------------
(* State after construction: an empty table, no request in flight. *)

\* A handler's locals while its request is in flight.  The Lambda trigger
\* makes one store call, its last step, so it is never in flight between
\* two steps.
ApiIdle ==
    [pc |-> "idle", brand |-> None, environment |-> None, runId |-> None,
     run_id |-> None, existing |-> <<>>]
WebhookIdle ==
    [pc |-> "idle", event |-> <<>>, secret |-> None, existing |-> <<>>]

\* A response: who returned it, its status code, and what the request did.
\*   message    the message or error of the body
\*   requested  the runId the request supplied, of a trigger request
\*   inputs_run_id   the run identifier in the workflow inputs handed to
\*              trigger_workflow, None when it was not called
\*   dispatch   the outcome of trigger_workflow: "none", "accepted", "refused"
\*   stored     the outcome of put_test_run:     "none", "ok", "failed"
\*   updated    the outcome of update_test_run_status: "none", "ok", "failed"
\*   db_error   the error of the store call that failed
\*   conclusion, signature, secret   of a webhook request: the conclusion
\*              and the signature it carried, and the configured secret
\*   limit, page_limit, count, has_more   of a list request: the limit asked
\*              for, the limit and the count the body reports, whether it
\*              carries a pagination key
\*   brand_parameter, looked, locator, artifacts, reportUrl   of a get-results
\*              request: the brand it named, the brands get_test_run was
\*              called with, in order, whether get_test_artifacts was called,
\*              and the body's artifacts ("null", "attached", "error") and
\*              reportUrl
\*   path_parameters   get-results (Lambda): the event's pathParameters
\*   status_parameter, start_date, end_date, cursor   list: the filters asked
\*              for and the lastEvaluatedKey ("none", "malformed", "key")
\*   queried    list: whether list_test_runs was called
\*   github_event, action, well_formed   webhook: the X-GitHub-Event header,
\*              and of the body its action and whether it is JSON
\*   iso_timestamp, timestamp_for_s3   get-results: the record's timestamp
\*              and the path segment made of it, character by character
\*   event      webhook: <<the event delivered>>
NoResponse ==
    [handler |-> "none", statusCode |-> 0, message |-> None, run_id |-> None,
     requested |-> None, inputs_run_id |-> None, brand |-> None, environment |-> None, status |-> None, duration |-> <<>>,
     dispatch |-> "none", stored |-> "none", updated |-> "none",
     db_error |-> None, conclusion |-> None, signature |-> <<>>,
     secret |-> None, limit |-> <<>>, page_limit |-> 0, count |-> 0,
     has_more |-> FALSE, brand_parameter |-> None, looked |-> <<>>,
     locator |-> FALSE, artifacts |-> "null", reportUrl |-> None,
     path_parameters |-> "none", status_parameter |-> None,
     start_date |-> None, end_date |-> None, cursor |-> "none",
     queried |-> FALSE, github_event |-> None, action |-> None,
     well_formed |-> FALSE, iso_timestamp |-> <<>>, timestamp_for_s3 |-> <<>>,
     event |-> <<>>]

Response(fields) == fields @@ NoResponse

\* The last store call that returned: which it was, and of its result the
\* success flag, the error and the key of the item it carries.
NoLast ==
    [op |-> "none", success |-> FALSE, error |-> None, pk |-> None, sk |-> None]

LastOf(op, result) ==
    [op |-> op, success |-> result.success, error |-> result.error,
     pk |-> IF result.item = <<>> THEN None ELSE result.item[1].pk,
     sk |-> IF result.item = <<>> THEN None ELSE result.item[1].sk]

Init ==
    /\ table = {}
    /\ now = 0
    /\ uuidCtr = 0
    /\ last = NoLast
    /\ api = ApiIdle
    /\ wh = WebhookIdle
    /\ resp = NoResponse

\* Time passes.
Tick ==
    /\ now < MaxTime
    /\ now' = now + 1
    /\ UNCHANGED <<table, uuidCtr, last, api, wh, resp>>

-----------------------------------------------------------------------------
(* Clients of DynamoDBClient calling it directly, one call after another,   *)
(* as tests/utils/test_dynamodb.py does.                                    *)

ClientBrands == {"mweb", "webafrica"}
ClientUpdateStatuses == {"running", "passed"}

\* run_data of a direct put_test_run call: status is optional.
ClientRunData ==
    { [runId |-> "run-a", brand |-> "mweb", environment |-> "prod"],
      [runId |-> "run-a", brand |-> "mweb", environment |-> "staging",
       status |-> "triggered"],
      [runId |-> "run-b", brand |-> "mweb", environment |-> "prod",
       status |-> "running"],
      [runId |-> "run-a", brand |-> "webafrica", environment |-> "prod",
       status |-> "triggered"] }

\* additional_data of a direct update_test_run_status call; <<>> is None.
\* The third is what api.py's trigger passes, the fourth has the shape of
\* the webhook's update_data, the fifth names every key attribute.
ClientAdditionalData ==
    { <<>>,
      [duration |-> <<120>>],
      [githubRunId |-> None, status |-> "running"],
      [status |-> "passed", duration |-> <<120>>],
      [pk |-> make_pk("webafrica"), sk |-> make_sk(isoformat(0), "run-b"),
       gsi1pk |-> make_gsi1pk("failed"), gsi1sk |-> make_gsi1sk(isoformat(0))] }

\* put_test_run(run_data)
ClientPut(run_data, storage_ok) ==
    LET r == put_test_run(table, run_data, now, storage_ok)
    IN  /\ Cardinality(r.table) <= MaxItems
        /\ table' = r.table
        /\ last' = LastOf("put", r.result)
        /\ UNCHANGED <<now, uuidCtr, api, wh, resp>>

\* update_test_run_status(brand, run_id, status, additional_data)
ClientUpdate(brand, run_id, status, additional_data, storage_ok) ==
    LET r == update_test_run_status(table, brand, run_id, status, additional_data,
                                    storage_ok)
    IN  /\ table' = r.table
        /\ last' = LastOf("update", r.result)
        /\ UNCHANGED <<now, uuidCtr, api, wh, resp>>

\* A storage failure is drawn for every put, and for one update per record
\* looked up: the failure result does not depend on status or additional_data.
StoreNext ==
    \/ Tick
    \/ \E run_data \in ClientRunData, ok \in BOOLEAN : ClientPut(run_data, ok)
    \/ \E b \in ClientBrands, r \in CustomRunIds, s \in ClientUpdateStatuses,
          ad \in ClientAdditionalData :
            ClientUpdate(b, r, s, ad, TRUE)
    \/ \E b \in ClientBrands, r \in CustomRunIds :
            ClientUpdate(b, r, "passed", <<>>, FALSE)

StoreSpec == Init /\ [][StoreNext]_vars

\* The same clients, with puts the store serves or fails and updates of
\* the status alone.
RecordNext ==
    \/ Tick
    \/ \E run_data \in ClientRunData, ok \in BOOLEAN : ClientPut(run_data, ok)
    \/ \E b \in ClientBrands, r \in CustomRunIds, s \in ClientUpdateStatuses :
            ClientUpdate(b, r, s, <<>>, TRUE)

RecordSpec == Init /\ [][RecordNext]_vars

\* additional_data naming the attributes the keys are built from: the
\* timestamp, alone and along with the index sort key.
ClientTimestampData ==
    { <<>>,
      [timestamp |-> "2025-06-03T13:59:59+00:00"],
      [timestamp |-> "2025-06-03T13:59:59+00:00",
       gsi1sk |-> make_gsi1sk("2025-06-03T13:59:59+00:00")] }

\* The same clients, with updates that carry such additional_data.
TimestampNext ==
    \/ Tick
    \/ \E run_data \in ClientRunData : ClientPut(run_data, TRUE)
    \/ \E b \in ClientBrands, r \in CustomRunIds, s \in ClientUpdateStatuses,
          ad \in ClientTimestampData :
            ClientUpdate(b, r, s, ad, TRUE)

TimestampSpec == Init /\ [][TimestampNext]_vars

-----------------------------------------------------------------------------
(* GitHubClient. *)

\* trigger_workflow: success exactly on the "accepted" status code; the
\* result never carries a 'run_id'.
trigger_workflow(status_code) ==
    [success |-> status_code = AcceptedStatusCode, run_id |-> None]

\* 'sha256=' + hmac.new(secret, payload, sha256).hexdigest(): a digest is
\* determined by its key and the bytes digested, and differs when either
\* does.  The body digested is named by whether it is the request's own.
expected_signature(secret) == <<"sha256=", secret, "this body">>

\* verify_webhook_signature: hmac.compare_digest(expected_signature, signature)
verify_webhook_signature(signature, secret) ==
    expected_signature(secret) = signature

-----------------------------------------------------------------------------
(* POST /trigger-tests (api.py trigger_tests), a step per store call. *)

\* What a response to POST /trigger-tests records of the request body.
api_request(brand, environment, runId) ==
    [handler |-> "api_trigger", brand |-> brand, environment |-> environment,
     requested |-> runId]

\* As api_trigger_tests, going on to the dispatch when the write failed.
api_trigger_tests_unchecked(brand, environment, runId, storage_ok) ==
    LET run_id == IF runId # None THEN runId
                  ELSE generated_run_id(brand, environment, now)
        run_data == [runId |-> run_id, brand |-> brand,
                     environment |-> environment, status |-> "triggered"]
        db_result == put_test_run(table, run_data, now, storage_ok)
    IN  /\ api.pc = "idle"
        /\ IF brand \notin Range(valid_brands)
           THEN /\ resp' = Response([statusCode |-> 400, message |-> "Invalid brand"]
                                    @@ api_request(brand, environment, runId))
                /\ UNCHANGED <<table, api>>
           ELSE IF environment \notin Range(api_valid_environments)
           THEN /\ resp' = Response([statusCode |-> 400,
                                     message |-> "Invalid environment"]
                                    @@ api_request(brand, environment, runId))
                /\ UNCHANGED <<table, api>>
           ELSE /\ Cardinality(db_result.table) <= MaxItems
                /\ table' = db_result.table
                /\ api' = [pc |-> "dispatch", brand |-> brand,
                           environment |-> environment, runId |-> runId,
                           run_id |-> run_id, existing |-> <<>>]
                /\ resp' = resp
        /\ UNCHANGED <<now, uuidCtr, last, wh>>

\* Validation, the run identifier and the write of the triggered record.
api_trigger_tests(brand, environment, runId, storage_ok) ==
    LET run_id == IF runId # None THEN runId
                  ELSE generated_run_id(brand, environment, now)
        run_data == [runId |-> run_id, brand |-> brand,
                     environment |-> environment, status |-> "triggered"]
        db_result == put_test_run(table, run_data, now, storage_ok)
    IN  /\ api.pc = "idle"
        /\ IF brand \notin Range(valid_brands)
           THEN /\ resp' = Response([statusCode |-> 400, message |-> "Invalid brand"]
                                    @@ api_request(brand, environment, runId))
                /\ UNCHANGED <<table, api>>
           ELSE IF environment \notin Range(api_valid_environments)
           THEN /\ resp' = Response([statusCode |-> 400,
                                     message |-> "Invalid environment"]
                                    @@ api_request(brand, environment, runId))
                /\ UNCHANGED <<table, api>>
           ELSE IF ~db_result.result.success
           THEN /\ resp' = Response([statusCode |-> 500,
                                     message |-> "Failed to store test run",
                                     run_id |-> run_id, stored |-> "failed",
                                     db_error |-> db_result.result.error]
                                    @@ api_request(brand, environment, runId))
                /\ UNCHANGED <<table, api>>
           ELSE /\ Cardinality(db_result.table) <= MaxItems
                /\ table' = db_result.table
                /\ api' = [pc |-> "dispatch", brand |-> brand,
                           environment |-> environment, runId |-> runId,
                           run_id |-> run_id, existing |-> <<>>]
                /\ resp' = resp
        /\ UNCHANGED <<now, uuidCtr, last, wh>>

\* workflow_inputs: the run identifier goes under 'run_id'.
api_workflow_inputs ==
    [brand |-> api.brand, environment |-> api.environment, run_id |-> api.run_id]

\* As api_trigger_response, with an error response when the update failed.
api_trigger_response_strict(dispatch, updated, db_error) ==
    Response([statusCode |-> IF updated = "failed" THEN 500 ELSE 200,
              message |-> IF updated = "failed" THEN "Failed to update test run"
                          ELSE "Test run triggered successfully",
              run_id |-> api.run_id, status |-> "triggered",
              inputs_run_id |-> api_workflow_inputs.run_id,
              stored |-> "ok", dispatch |-> dispatch, updated |-> updated,
              db_error |-> db_error]
             @@ api_request(api.brand, api.environment, api.runId))

\* The response the function returns after the dispatch, whatever became of
\* the dispatch and of the update.
api_trigger_response(dispatch, updated, db_error) ==
    Response([statusCode |-> 200,
              message |-> "Test run triggered successfully",
              run_id |-> api.run_id, status |-> "triggered",
              inputs_run_id |-> api_workflow_inputs.run_id,
              stored |-> "ok", dispatch |-> dispatch, updated |-> updated,
              db_error |-> db_error]
             @@ api_request(api.brand, api.environment, api.runId))

\* github_client.trigger_workflow(...) and, only when it succeeded,
\* update_test_run_status(brand, run_id, 'running', additional_data) to its
\* lookup; a lookup that raises is caught and returned as a failure.
api_dispatch(status_code, lookup_ok) ==
    LET github_result == trigger_workflow(status_code)
        existing == get_test_run(table, api.brand, api.run_id)
    IN  /\ api.pc = "dispatch"
        /\ IF ~github_result.success
           THEN /\ api' = ApiIdle
                /\ resp' = api_trigger_response("refused", "none", None)
           ELSE IF ~lookup_ok
           THEN /\ api' = ApiIdle
                /\ resp' = api_trigger_response("accepted", "failed",
                                                "Failed to get test run")
           ELSE IF existing = <<>>
           THEN /\ api' = ApiIdle
                /\ resp' = api_trigger_response("accepted", "failed",
                                                "Test run not found")
           ELSE /\ api' = [api EXCEPT !.pc = "write", !.existing = existing]
                /\ resp' = resp
        /\ UNCHANGED <<table, now, uuidCtr, last, wh>>

\* additional_data of the update to running: github_result.get('run_id') is
\* None.
api_additional_data == [githubRunId |-> None, status |-> "running"]

\* update_test_run_status, from its lookup on; its failure is only logged.
api_update_write(storage_ok) ==
    LET r == update_write(table, api.existing[1], "running", api_additional_data,
                          storage_ok)
    IN  /\ api.pc = "write"
        /\ table' = r.table
        /\ api' = ApiIdle
        /\ resp' = api_trigger_response("accepted",
                                        IF r.result.success THEN "ok" ELSE "failed",
                                        r.result.error)
        /\ UNCHANGED <<now, uuidCtr, last, wh>>

-----------------------------------------------------------------------------
(* The Lambda trigger (handlers/trigger_tests.py handler): validation, the  *)
(* run identifier, the dispatch, then put_test_run and the success          *)
(* response, which does not depend on the write.                            *)

\* What a response of the Lambda trigger records of the request body; the
\* handler reads brand and environment of it, and no runId.
lambda_request(brand, environment, runId) ==
    [handler |-> "lambda_trigger", brand |-> brand, environment |-> environment,
     requested |-> runId]

\* workflow_inputs: the run identifier goes under 'runId'.
lambda_workflow_inputs(brand, environment, run_id) ==
    [brand |-> brand, environment |-> environment, runId |-> run_id,
     triggeredBy |-> "api"]

\* As trigger_response, with an error response when the write failed.
trigger_response_checked(run_id, db_result) ==
    [statusCode |-> IF db_result.result.success THEN 200 ELSE 500,
     message |-> IF db_result.result.success
                 THEN "Test workflow triggered successfully"
                 ELSE "Failed to store run metadata",
     run_id |-> run_id, status |-> "triggered", dispatch |-> "accepted",
     stored |-> IF db_result.result.success THEN "ok" ELSE "failed",
     db_error |-> db_result.result.error]

\* The response after put_test_run returned: db_result is only logged.
trigger_response(run_id, db_result) ==
    [statusCode |-> 200,
     message |-> "Test workflow triggered successfully",
     run_id |-> run_id, status |-> "triggered", dispatch |-> "accepted",
     stored |-> IF db_result.result.success THEN "ok" ELSE "failed",
     db_error |-> db_result.result.error]

trigger_tests_handler(brand, environment, runId, status_code, storage_ok) ==
    LET run_id == uuid4(uuidCtr + 1)
        workflow_inputs == lambda_workflow_inputs(brand, environment, run_id)
        workflow_result == trigger_workflow(status_code)
        run_data == [runId |-> run_id, brand |-> brand,
                     environment |-> environment, status |-> "triggered",
                     timestamp |-> isoformat(now), actor |-> "api",
                     workflow |-> "scheduled-tests.yml",
                     repository |-> "mwebcode/hgc-frontend-tests"]
        db_result == put_test_run(table, run_data, now, storage_ok)
        request == lambda_request(brand, environment, runId)
    IN  /\ IF brand = None \/ environment = None
           THEN /\ resp' = Response([statusCode |-> 400,
                                     message |-> "Missing required parameters"]
                                    @@ request)
                /\ UNCHANGED <<table, uuidCtr>>
           ELSE IF brand \notin Range(valid_brands)
           THEN /\ resp' = Response([statusCode |-> 400, message |-> "Invalid brand"]
                                    @@ request)
                /\ UNCHANGED <<table, uuidCtr>>
           ELSE IF environment \notin Range(lambda_valid_environments)
           THEN /\ resp' = Response([statusCode |-> 400,
                                     message |-> "Invalid environment"]
                                    @@ request)
                /\ UNCHANGED <<table, uuidCtr>>
           ELSE /\ uuidCtr < MaxUuid
                /\ uuidCtr' = uuidCtr + 1
                /\ IF ~workflow_result.success
                   THEN /\ resp' = Response([statusCode |-> 500,
                                             message |-> "Failed to trigger GitHub workflow",
                                             run_id |-> run_id,
                                             inputs_run_id |-> workflow_inputs.runId,
                                             dispatch |-> "refused"]
                                            @@ request)
                        /\ table' = table
                   ELSE /\ Cardinality(db_result.table) <= MaxItems
                        /\ table' = db_result.table
                        /\ resp' = Response(trigger_response(run_id, db_result)
                                            @@ [inputs_run_id |-> workflow_inputs.runId]
                                            @@ request)
        /\ UNCHANGED <<now, last, api, wh>>

-----------------------------------------------------------------------------
(* The Lambda webhook (handlers/webhook.py handler). *)

\* As status_mapping, with 'completed' for a conclusion the table lacks.
status_mapping_completed(conclusion) ==
    CASE conclusion = "success" -> "passed"
      [] conclusion = "failure" -> "failed"
      [] conclusion = "cancelled" -> "cancelled"
      [] conclusion = "skipped" -> "cancelled"
      [] conclusion = "timed_out" -> "failed"
      [] conclusion = "action_required" -> "failed"
      [] OTHER -> "completed"

\* status_mapping.get(conclusion, 'failed')
status_mapping(conclusion) ==
    CASE conclusion = "success" -> "passed"
      [] conclusion = "failure" -> "failed"
      [] conclusion = "cancelled" -> "cancelled"
      [] conclusion = "skipped" -> "cancelled"
      [] conclusion = "timed_out" -> "failed"
      [] conclusion = "action_required" -> "failed"
      [] OTHER -> "failed"

\* datetime.fromisoformat(s.replace('Z', '+00:00')), in seconds from the
\* model's epoch; a string outside the domain does not parse.
ParsedSeconds ==
    ("2025-06-03T14:00:00Z" :> 0) @@ ("2025-06-03T14:02:00Z" :> 120)

\* duration: <<>> unless both timestamps are there and parse.
duration_of(created_at, updated_at) ==
    IF created_at # None /\ updated_at # None
    THEN IF created_at \in DOMAIN ParsedSeconds /\ updated_at \in DOMAIN ParsedSeconds
         THEN <<ParsedSeconds[updated_at] - ParsedSeconds[created_at]>>
         ELSE <<>>
    ELSE <<>>

\* re.search(r'\[runId:\s*([^\]]+)\]', commit_message), group 1 stripped
MarkerRunId ==
    ("" :> None) @@ ("nightly run [runId: run-a]" :> "run-a")

\* 'mweb' in repo_name.lower() / 'webafrica' in repo_name.lower()
BrandInRepoName ==
    ("hgc-frontend-tests" :> None) @@ ("MWeb-site" :> "mweb")
        @@ ("webafrica-site" :> "webafrica")

\* custom_run_id: from the inputs, else from the commit message marker.
custom_run_id_of(event) ==
    IF Get(event.inputs, "runId", None) # None
    THEN event.inputs.runId
    ELSE MarkerRunId[event.commit_message]

\* brand: from the inputs, else from the repository name.
brand_of(event) ==
    IF Get(event.inputs, "brand", None) # None
    THEN event.inputs.brand
    ELSE BrandInRepoName[event.repo_name]

environment_of(event) == Get(event.inputs, "environment", None)

\* `if duration:` leaves out None and 0.
update_data_of(event) ==
    LET duration == duration_of(event.created_at, event.updated_at)
    IN  (IF duration # <<>> /\ duration # <<0>> THEN [duration |-> duration] ELSE <<>>)
        @@ [status |-> status_mapping(event.conclusion),
            githubRunId |-> event.id,
            conclusion |-> event.conclusion,
            workflowName |-> "Run tests",
            runNumber |-> <<1>>,
            updatedAt |-> event.updated_at]

\* As fallback_run_data, with the environment left out.
fallback_run_data_bare(event, run_id) ==
    [runId |-> run_id,
     brand |-> brand_of(event),
     environment |-> None,
     status |-> status_mapping(event.conclusion),
     githubRunId |-> event.id,
     conclusion |-> event.conclusion,
     workflowName |-> "Run tests",
     runNumber |-> <<1>>,
     actor |-> "unknown",
     workflow |-> None,
     repository |-> None,
     commit |-> None,
     duration |-> duration_of(event.created_at, event.updated_at)]

\* run_data of the fallback record.
fallback_run_data(event, run_id) ==
    [runId |-> run_id,
     brand |-> brand_of(event),
     environment |-> environment_of(event),
     status |-> status_mapping(event.conclusion),
     githubRunId |-> event.id,
     conclusion |-> event.conclusion,
     workflowName |-> "Run tests",
     runNumber |-> <<1>>,
     actor |-> "unknown",
     workflow |-> None,
     repository |-> None,
     commit |-> None,
     duration |-> duration_of(event.created_at, event.updated_at)]

\* As processed_action, for a handler that processes a run once requested.
processed_action_requested == "requested"

\* The action of a workflow_run event the handler processes.
processed_action == "completed"

\* As webhook_response, with a failed store call answered as an error.
webhook_response_strict(event, webhook_secret, stored, updated, db_error) ==
    Response([statusCode |-> IF "failed" \in {stored, updated} THEN 500 ELSE 200,
              message |-> IF "failed" \in {stored, updated}
                          THEN "Internal server error"
                          ELSE "Webhook processed successfully",
              status |-> status_mapping(event.conclusion),
              conclusion |-> event.conclusion,
              run_id |-> custom_run_id_of(event),
              brand |-> brand_of(event),
              environment |-> environment_of(event),
              duration |-> duration_of(event.created_at, event.updated_at),
              stored |-> stored, updated |-> updated, db_error |-> db_error]
             @@ [handler |-> "webhook", signature |-> event.signature,
                 secret |-> webhook_secret, github_event |-> event.github_event,
                 action |-> event.action, well_formed |-> event.well_formed,
     event |-> <<event>>])

\* What every response to a webhook request records of the request.
webhook_request(event, webhook_secret) ==
    [handler |-> "webhook", signature |-> event.signature,
     secret |-> webhook_secret, github_event |-> event.github_event,
     action |-> event.action, well_formed |-> event.well_formed,
     event |-> <<event>>]

\* The 200 response of a processed event, and what became of the store call.
webhook_response(event, webhook_secret, stored, updated, db_error) ==
    Response([statusCode |-> 200,
              message |-> "Webhook processed successfully",
              status |-> status_mapping(event.conclusion),
              conclusion |-> event.conclusion,
              run_id |-> custom_run_id_of(event),
              brand |-> brand_of(event),
              environment |-> environment_of(event),
              duration |-> duration_of(event.created_at, event.updated_at),
              stored |-> stored, updated |-> updated, db_error |-> db_error]
             @@ webhook_request(event, webhook_secret))

\* The handler to its first store call: the event type, the signature, the
\* payload, then the update's lookup or the put of a new record.
webhook_handler(event, webhook_secret, storage_ok) ==
    LET answer(code, message) ==
            /\ resp' = Response([statusCode |-> code, message |-> message]
                                @@ webhook_request(event, webhook_secret))
            /\ UNCHANGED <<table, uuidCtr, wh>>
        custom_run_id == custom_run_id_of(event)
        brand == brand_of(event)
        environment == environment_of(event)
        existing == get_test_run(table, brand, custom_run_id)
        put == put_test_run(table, fallback_run_data(event, uuid4(uuidCtr + 1)),
                            now, storage_ok)
    IN  /\ wh.pc = "idle"
        /\ IF event.github_event # "workflow_run"
           THEN answer(200, "Ignored event type")
           ELSE IF /\ webhook_secret # None
                   /\ event.signature # <<>>
                   /\ ~verify_webhook_signature(event.signature, webhook_secret)
           THEN answer(401, "Invalid webhook signature")
           ELSE IF ~event.well_formed
           THEN answer(400, "Invalid JSON in webhook payload")
           ELSE IF event.action # processed_action
           THEN answer(200, "Ignored action")
           ELSE IF custom_run_id # None /\ brand # None
           THEN IF ~storage_ok
                THEN /\ resp' = webhook_response(event, webhook_secret, "none",
                                                 "failed", "Failed to get test run")
                     /\ UNCHANGED <<table, uuidCtr, wh>>
                ELSE IF existing = <<>>
                THEN /\ resp' = webhook_response(event, webhook_secret, "none",
                                                 "failed", "Test run not found")
                     /\ UNCHANGED <<table, uuidCtr, wh>>
                ELSE /\ wh' = [pc |-> "write", event |-> event,
                               secret |-> webhook_secret, existing |-> existing]
                     /\ UNCHANGED <<table, uuidCtr, resp>>
           ELSE IF brand # None /\ environment # None
           THEN /\ uuidCtr < MaxUuid
                /\ uuidCtr' = uuidCtr + 1
                /\ Cardinality(put.table) <= MaxItems
                /\ table' = put.table
                /\ resp' = webhook_response(event, webhook_secret,
                                            IF put.result.success THEN "ok" ELSE "failed",
                                            "none", put.result.error)
                /\ wh' = wh
           ELSE /\ resp' = webhook_response(event, webhook_secret, "none", "none", None)
                /\ UNCHANGED <<table, uuidCtr, wh>>
        /\ UNCHANGED <<now, last, api>>

\* update_test_run_status(brand, custom_run_id, final_status, update_data),
\* from its lookup on, and the response.
webhook_update_write(storage_ok) ==
    LET r == update_write(table, wh.existing[1], status_mapping(wh.event.conclusion),
                          update_data_of(wh.event), storage_ok)
    IN  /\ wh.pc = "write"
        /\ table' = r.table
        /\ wh' = WebhookIdle
        /\ resp' = webhook_response(wh.event, wh.secret, "none",
                                    IF r.result.success THEN "ok" ELSE "failed",
                                    r.result.error)
        /\ UNCHANGED <<now, uuidCtr, last, api>>

-----------------------------------------------------------------------------
(* Listing: DynamoDBClient.list_test_runs, the Lambda list handler          *)
(* (handlers/list_runs.py) and GET /runs (api.py list_runs).                *)

\* The instant an isoformat string, or an index sort key, was built from.
TimestampTick ==
    [s \in {isoformat(t) : t \in Ticks} |-> CHOOSE t \in Ticks : isoformat(t) = s]
Gsi1skTick ==
    [s \in {make_gsi1sk(isoformat(t)) : t \in Ticks} |->
        CHOOSE t \in Ticks : make_gsi1sk(isoformat(t)) = s]

\* The byte order of the partition keys in use.
PkRank == (make_pk("mweb") :> 1) @@ (make_pk("webafrica") :> 2)

\* The elements of S in ascending order of a strict total order, given as
\* the set of its pairs <<y, x>> with y before x.
ordered(S, before) ==
    [k \in 1..Cardinality(S) |->
        CHOOSE x \in S : Cardinality({y \in S : <<y, x>> \in before}) = k - 1]

\* The order of a Query: the table's by sk within the partition, GSI1's by
\* gsi1sk within the index partition, then by the table's key.
table_before(a, b) == sk_before(a.sk, b.sk)
index_before(a, b) ==
    \/ Gsi1skTick[a.gsi1sk] < Gsi1skTick[b.gsi1sk]
    \/ /\ Gsi1skTick[a.gsi1sk] = Gsi1skTick[b.gsi1sk]
       /\ \/ PkRank[a.pk] < PkRank[b.pk]
          \/ a.pk = b.pk /\ sk_before(a.sk, b.sk)

TableKey == {"pk", "sk"}
IndexKey == {"gsi1pk", "gsi1sk", "pk", "sk"}
key_schema(use_index) == IF use_index THEN IndexKey ELSE TableKey
key_of(item, schema) == [k \in schema |-> item[k]]

\* What a call returns where boto3 or DynamoDB raise.
QueryRaises == [ok |-> FALSE, Items |-> <<>>, LastEvaluatedKey |-> <<>>]
NoItems == [ok |-> FALSE, items |-> <<>>, count |-> 0, lastEvaluatedKey |-> <<>>]

\* The items of a query in key order.
in_key_order(matching, use_index) ==
    IF use_index
    THEN ordered(matching, {p \in matching \X matching : index_before(p[1], p[2])})
    ELSE ordered(matching, {p \in matching \X matching : table_before(p[1], p[2])})

\* Of the items in key order, those after ExclusiveStartKey.
after_start_key(all, use_index, exclusive_start_key) ==
    IF exclusive_start_key = <<>>
    THEN all
    ELSE SelectSeq(all, LAMBDA i :
            IF use_index THEN index_before(exclusive_start_key[1], i)
            ELSE table_before(exclusive_start_key[1], i))

\* The first Limit of them, with LastEvaluatedKey when the Limit was reached.
first_page(after, limit, schema) ==
    IF Len(after) < limit
    THEN [ok |-> TRUE, Items |-> after, LastEvaluatedKey |-> <<>>]
    ELSE [ok |-> TRUE, Items |-> SubSeq(after, 1, limit),
          LastEvaluatedKey |-> <<key_of(after[limit], schema)>>]

\* Table.query(Limit, ExclusiveStartKey, KeyConditionExpression) over the
\* items matching the key condition.  It raises on a Limit below 1 and on a
\* start key that is not a key of the table or index queried.
query(matching, use_index, limit, exclusive_start_key) ==
    IF limit < 1
    THEN QueryRaises
    ELSE IF /\ exclusive_start_key # <<>>
            /\ DOMAIN exclusive_start_key[1] # key_schema(use_index)
    THEN QueryRaises
    ELSE first_page(after_start_key(in_key_order(matching, use_index), use_index,
                                    exclusive_start_key),
                    limit, key_schema(use_index))

\* items.sort(key=timestamp, reverse=True): latest first; equal timestamps
\* keep their order.
sort_by_timestamp_descending(items) ==
    LET earlier(j, k) ==
            \/ TimestampTick[items[j].timestamp] > TimestampTick[items[k].timestamp]
            \/ /\ TimestampTick[items[j].timestamp] = TimestampTick[items[k].timestamp]
               /\ j < k
    IN  [k \in DOMAIN items |->
            items[ordered(DOMAIN items,
                          {p \in (DOMAIN items) \X (DOMAIN items) : earlier(p[1], p[2])})[k]]]

\* The result dict built from the page's items.
list_result(items, last_evaluated_key) ==
    [ok |-> TRUE, items |-> sort_by_timestamp_descending(items),
     count |-> Len(items), lastEvaluatedKey |-> last_evaluated_key]

\* As list_page, without the brand filter.
list_page_unfiltered(response, brand, status) ==
    IF ~response.ok
    THEN NoItems
    ELSE list_result(response.Items, response.LastEvaluatedKey)

\* From the query's response on: the brand filter of a status query is
\* applied to the page.
list_page(response, brand, status) ==
    IF ~response.ok
    THEN NoItems
    ELSE IF status # None /\ brand # None
    THEN list_result(SelectSeq(response.Items, LAMBDA i : i.brand = brand),
                     response.LastEvaluatedKey)
    ELSE list_result(response.Items, response.LastEvaluatedKey)

\* The items of GSI1 under a status and the date range.
status_condition(tbl, status, start_date, end_date) ==
    {i \in tbl :
        /\ i.gsi1pk = make_gsi1pk(status)
        /\ start_date # None => Gsi1skTick[i.gsi1sk] >= TimestampTick[start_date]
        /\ end_date # None => Gsi1skTick[i.gsi1sk] <= TimestampTick[end_date]}

\* The items of the table under a brand.
brand_condition(tbl, brand) == {i \in tbl : i.pk = make_pk(brand)}

\* As list_test_runs, with no default brand: every item of the table.
list_test_runs_unscoped(tbl, brand, status, start_date, end_date, limit, last_evaluated_key, storage_ok) ==
    IF ~storage_ok
    THEN NoItems
    ELSE IF status # None
    THEN list_page(query(status_condition(tbl, status, start_date, end_date), TRUE,
                         limit, last_evaluated_key), brand, status)
    ELSE IF brand # None
    THEN list_page(query(brand_condition(tbl, brand), FALSE, limit,
                         last_evaluated_key), brand, status)
    ELSE list_page(query(tbl, TRUE, limit, last_evaluated_key), brand, status)

\* list_test_runs: by status on GSI1 with the date range, else by brand,
\* else the brand mweb.  ok is FALSE where it raises.
list_test_runs(tbl, brand, status, start_date, end_date, limit, last_evaluated_key, storage_ok) ==
    IF ~storage_ok
    THEN NoItems
    ELSE IF status # None
    THEN list_page(query(status_condition(tbl, status, start_date, end_date), TRUE,
                         limit, last_evaluated_key), brand, status)
    ELSE IF brand # None
    THEN list_page(query(brand_condition(tbl, brand), FALSE, limit,
                         last_evaluated_key), brand, status)
    ELSE list_page(query(brand_condition(tbl, "mweb"), FALSE, limit,
                         last_evaluated_key), brand, status)

\* As capped_limit, without the cap.
capped_limit_unbounded(limit) == limit

\* The Lambda handler's `if limit > 100: limit = 100`.
capped_limit(limit) == IF limit > ServerCap THEN ServerCap ELSE limit

\* As not_json, with json.loads accepting every value.
not_json_never(last_evaluated_key) == FALSE

\* Whether json.loads raises JSONDecodeError on the lastEvaluatedKey given.
not_json(last_evaluated_key) ==
    last_evaluated_key # <<>> /\ "malformed" \in DOMAIN last_evaluated_key[1]

\* What a response to a list request records of the request.
list_request(handler, brand, status, start_date, end_date, last_evaluated_key) ==
    [handler |-> handler, brand_parameter |-> brand, status_parameter |-> status,
     start_date |-> start_date, end_date |-> end_date,
     cursor |-> IF last_evaluated_key = <<>> THEN "none"
                ELSE IF DOMAIN last_evaluated_key[1] = {"malformed"} THEN "malformed"
                ELSE "key"]

\* The response to a list request: limit is the limit asked for (<<>> when
\* the request named none), page_limit the limit the body reports.
list_response(request, code, message, limit_parameter, page_limit, result) ==
    /\ resp' = Response([statusCode |-> code,
                         message |-> message, limit |-> limit_parameter,
                         page_limit |-> page_limit, count |-> result.count,
                         has_more |-> result.lastEvaluatedKey # <<>>]
                        @@ request)
    /\ UNCHANGED <<table, now, uuidCtr, last, api, wh>>

\* The response after list_test_runs was called, and returned or raised.
list_reply(request, limit_parameter, limit, result) ==
    IF result.ok
    THEN list_response([queried |-> TRUE] @@ request, 200, None, limit_parameter,
                       limit, result)
    ELSE list_response([queried |-> TRUE] @@ request, 500, "Internal server error",
                       limit_parameter, limit, NoItems)

\* int(query_parameters.get('limit', '25')), and FastAPI's Query(25)
limit_of(limit_parameter) ==
    IF limit_parameter = <<>> THEN DefaultLimit ELSE limit_parameter[1]

\* handlers/list_runs.py handler; lastEvaluatedKey is <<>>, <<key>>, or
\* <<[malformed |-> TRUE]>> for a value that is not JSON.
list_runs_handler(brand, status, start_date, end_date, limit_parameter, lastEvaluatedKey, storage_ok) ==
    LET request == list_request("lambda_list", brand, status, start_date, end_date,
                                lastEvaluatedKey)
    IN  IF not_json(lastEvaluatedKey)
        THEN list_response(request, 400, "Invalid lastEvaluatedKey format",
                           limit_parameter, 0, NoItems)
        ELSE IF brand # None /\ brand \notin Range(valid_brands)
        THEN list_response(request, 400, "Invalid brand", limit_parameter, 0,
                           NoItems)
        ELSE IF status # None /\ status \notin Range(valid_statuses)
        THEN list_response(request, 400, "Invalid status", limit_parameter, 0,
                           NoItems)
        ELSE list_reply(request, limit_parameter,
                        capped_limit(limit_of(limit_parameter)),
                        list_test_runs(table, brand, status, start_date, end_date,
                                       capped_limit(limit_of(limit_parameter)),
                                       lastEvaluatedKey, storage_ok))

\* GET /runs: FastAPI refuses a limit above le=100 before the function runs.
api_list_runs(brand, status, start_date, end_date, limit_parameter, last_evaluated_key, storage_ok) ==
    LET request == list_request("api_list", brand, status, start_date, end_date,
                                last_evaluated_key)
    IN  IF limit_of(limit_parameter) > ServerCap
        THEN list_response(request, 422, "Input should be less than or equal to 100",
                           limit_parameter, 0, NoItems)
        ELSE IF brand # None /\ brand \notin Range(valid_brands)
        THEN list_response(request, 400, "Invalid brand", limit_parameter, 0, NoItems)
        ELSE IF status # None /\ status \notin Range(valid_statuses)
        THEN list_response(request, 400, "Invalid status", limit_parameter, 0, NoItems)
        ELSE IF not_json(last_evaluated_key)
        THEN list_response(request, 400, "Invalid lastEvaluatedKey format",
                           limit_parameter, 0, NoItems)
        ELSE list_reply(request, limit_parameter, limit_of(limit_parameter),
                        list_test_runs(table, brand, status, start_date, end_date,
                                       limit_of(limit_parameter), last_evaluated_key,
                                       storage_ok))

\* The list requests.
ListBrands == {None, "mweb", "unknown"}
ListStatuses == {None, "triggered", "bogus"}
ListLimits == { <<>>, <<0>>, <<1>>, <<100>>, <<101>> }
ListStartKeys ==
    { <<>>, <<[malformed |-> TRUE]>> }
        \cup { <<key_of(i, TableKey)>> : i \in table }
        \cup { <<key_of(i, IndexKey)>> : i \in table }

\* The runs stored: with a status, under two brands.
ListRunData == {d \in ClientRunData : "status" \in DOMAIN d}

\* Runs are stored directly; list requests arrive at both entry points: a
\* first page under every limit, by the default brand and by status, a
\* later page of both queries, and a storage failure.
ListNext ==
    \/ Tick
    \/ \E run_data \in ListRunData : ClientPut(run_data, TRUE)
    \/ \E s \in {None, "triggered"}, n \in ListLimits :
            \/ list_runs_handler(None, s, None, None, n, <<>>, TRUE)
            \/ api_list_runs(None, s, None, None, n, <<>>, TRUE)
    \/ \E s \in {None, "triggered"}, k \in ListStartKeys :
            \/ list_runs_handler(None, s, None, None, <<1>>, k, TRUE)
            \/ api_list_runs(None, s, None, None, <<1>>, k, TRUE)
    \/ list_runs_handler(None, None, None, None, <<>>, <<>>, FALSE)
    \/ api_list_runs(None, None, None, None, <<>>, <<>>, FALSE)

ListSpec == Init /\ [][ListNext]_vars

\* The date ranges of a list request: <<startDate, endDate>>.
ListDateRanges ==
    { <<isoformat(1), None>>, <<None, isoformat(1)>>, <<isoformat(1), isoformat(1)>> }

\* The same store; list requests arrive at both entry points under every
\* brand and status, with a limit above the cap, with a lastEvaluatedKey
\* that is not JSON, with a date range, and page by page under a brand.
FilterNext ==
    \/ Tick
    \/ \E run_data \in ListRunData : ClientPut(run_data, TRUE)
    \/ \E b \in ListBrands, s \in ListStatuses :
            \/ list_runs_handler(b, s, None, None, <<>>, <<>>, TRUE)
            \/ api_list_runs(b, s, None, None, <<>>, <<>>, TRUE)
    \/ list_runs_handler("unknown", None, None, None, <<101>>, <<>>, TRUE)
    \/ api_list_runs("unknown", None, None, None, <<101>>, <<>>, TRUE)
    \/ list_runs_handler(None, None, None, None, <<>>, <<[malformed |-> TRUE]>>, TRUE)
    \/ api_list_runs(None, None, None, None, <<>>, <<[malformed |-> TRUE]>>, TRUE)
    \/ \E s \in {None, "triggered"}, d \in ListDateRanges :
            \/ list_runs_handler("mweb", s, d[1], d[2], <<>>, <<>>, TRUE)
            \/ api_list_runs("mweb", s, d[1], d[2], <<>>, <<>>, TRUE)
    \/ \E k \in {<<>>} \cup {<<key_of(i, TableKey)>> : i \in table} :
            \/ list_runs_handler("mweb", None, None, None, <<1>>, k, TRUE)
            \/ api_list_runs("mweb", None, None, None, <<1>>, k, TRUE)

FilterSpec == Init /\ [][FilterNext]_vars

-----------------------------------------------------------------------------
(* The requests delivered to the handlers. *)

StatusCodes == {204, 422}

BaseEvent ==
    [github_event |-> "workflow_run", signature |-> <<>>, well_formed |-> TRUE,
     action |-> "completed", id |-> "9001", conclusion |-> "success",
     created_at |-> "2025-06-03T14:00:00Z", updated_at |-> "2025-06-03T14:02:00Z",
     inputs |-> <<>>, commit_message |-> "", repo_name |-> "hgc-frontend-tests"]

\* workflow_run.inputs as the Lambda trigger dispatches them (with 'runId'),
\* and as api.py dispatches them (with 'run_id').
LambdaInputs(run_id) ==
    [brand |-> "mweb", environment |-> "prod", runId |-> run_id,
     triggeredBy |-> "api"]
ApiInputs(run_id) ==
    [brand |-> "mweb", environment |-> "prod", run_id |-> run_id]

Conclusions ==
    {"success", "failure", "cancelled", "skipped", "timed_out", "action_required",
     "weird", None}

\* X-Hub-Signature-256: absent, or a digest under some key of some body.
Signatures ==
    { <<>>, <<"sha256=", "s3cr3t", "this body">>, <<"sha256=", "guess", "this body">>,
      <<"sha256=", "s3cr3t", "another body">> }

\* The webhook requests <<event, GITHUB_WEBHOOK_SECRET>> of the webhook alone.
WebhookRequests ==
    \* every conclusion, to a record looked up and to a new record
    { <<[BaseEvent EXCEPT !.conclusion = c, !.inputs = i], None>> :
        c \in Conclusions, i \in {LambdaInputs("run-a"), ApiInputs("run-a")} }
    \cup
    \* the timestamps: absent, equal, unparsable
    { <<[BaseEvent EXCEPT !.created_at = t[1], !.updated_at = t[2], !.inputs = i],
        None>> :
        t \in { <<None, None>>, <<"2025-06-03T14:00:00Z", "2025-06-03T14:00:00Z">>,
                <<"2025-06-03T14:00:00Z", "yesterday">> },
        i \in {LambdaInputs("run-a"), ApiInputs("run-a")} }
    \cup
    \* the run identifier and the brand found outside the inputs
    { <<[BaseEvent EXCEPT !.inputs = i, !.commit_message = m[1], !.repo_name = m[2]],
        None>> :
        i \in { <<>>, [environment |-> "prod"] },
        m \in { <<"", "hgc-frontend-tests">>, <<"", "MWeb-site">>,
                <<"nightly run [runId: run-a]", "MWeb-site">>,
                <<"nightly run [runId: run-a]", "webafrica-site">> } }
    \cup
    \* the signature, with and without a configured secret
    { <<[BaseEvent EXCEPT !.signature = g, !.inputs = i], k>> :
        g \in Signatures, i \in {LambdaInputs("run-a"), ApiInputs("run-a")},
        k \in {None, "s3cr3t"} }
    \cup
    \* what is not a completed workflow run, or not JSON
    { <<[BaseEvent EXCEPT !.github_event = "push"], "s3cr3t">>,
      <<[BaseEvent EXCEPT !.github_event = "push",
                          !.signature = <<"sha256=", "guess", "this body">>],
        "s3cr3t">>,
      <<[BaseEvent EXCEPT !.action = "requested", !.inputs = ApiInputs("run-a")], None>>,
      <<[BaseEvent EXCEPT !.action = "requested", !.inputs = ApiInputs("run-a"),
                          !.signature = <<"sha256=", "guess", "this body">>],
        "s3cr3t">>,
      <<[BaseEvent EXCEPT !.well_formed = FALSE], None>>,
      <<[BaseEvent EXCEPT !.well_formed = FALSE,
                          !.signature = <<"sha256=", "guess", "this body">>],
        "s3cr3t">> }

-----------------------------------------------------------------------------
(* Get Result: the Lambda handler (handlers/get_results.py) and             *)
(* GET /results/{run_id} (api.py get_results).                              *)

\* As all_brands, in the other order.
all_brands_reversed == <<"webafrica", "mweb">>

\* all_brands: the brands searched, in order, when the request names none.
all_brands == <<"mweb", "webafrica">>

\* The statuses for which the handlers fetch the artifacts.
artifact_statuses == {"passed", "failed", "completed"}

\* The brands get_test_run is called with: the brand named, else all_brands
\* up to the first that holds the run.
brands_looked(tbl, run_id, brand) ==
    IF brand # None
    THEN <<brand>>
    ELSE LET hits == {k \in DOMAIN all_brands :
                        get_test_run(tbl, all_brands[k], run_id) # <<>>}
         IN  IF hits = {}
             THEN all_brands
             ELSE SubSeq(all_brands, 1, CHOOSE k \in hits : \A j \in hits : k <= j)

\* test_run: what the last of those calls returned.
found_test_run(tbl, run_id, brand) ==
    LET looked == brands_looked(tbl, run_id, brand)
    IN  get_test_run(tbl, looked[Len(looked)], run_id)

\* What a response to a get-results request records of the request.
get_request(handler, run_id, brand) ==
    [handler |-> handler, requested |-> run_id, brand_parameter |-> brand]

\* str.replace(old, new) on a string given as its characters; new is a
\* string of at most one character.
RECURSIVE replace(_, _, _)
replace(string, old, new) ==
    IF string = <<>>
    THEN <<>>
    ELSE (IF Head(string) = old THEN new ELSE <<Head(string)>>)
            \o replace(Tail(string), old, new)

\* string[:n]
prefix(string, n) ==
    IF Len(string) <= n THEN string ELSE SubSeq(string, 1, n)

\* As timestamp_for_s3, cut after the minutes.
timestamp_for_s3_minutes(iso_timestamp) ==
    prefix(replace(replace(replace(replace(iso_timestamp, "-", <<>>), ":", <<>>),
                           "T", <<"_">>), "Z", <<>>), 13)

\* iso_timestamp.replace('-', '').replace(':', '').replace('T', '_')
\*              .replace('Z', '')[:15]
timestamp_for_s3(iso_timestamp) ==
    prefix(replace(replace(replace(replace(iso_timestamp, "-", <<>>), ":", <<>>),
                           "T", <<"_">>), "Z", <<>>), 15)

\* As response_data, with a failure of get_test_artifacts left uncaught.
response_data_uncaught(test_run, s3_ok, html_report) ==
    IF test_run.status \in artifact_statuses /\ ~s3_ok
    THEN [statusCode |-> 500, message |-> "Internal server error",
          locator |-> TRUE]
    ELSE [statusCode |-> 200, run_id |-> test_run.runId, brand |-> test_run.brand,
          environment |-> test_run.environment, status |-> test_run.status,
          locator |-> test_run.status \in artifact_statuses,
          artifacts |-> IF test_run.status \in artifact_statuses
                        THEN "attached" ELSE "null",
          reportUrl |-> IF test_run.status \in artifact_statuses /\ html_report
                        THEN "presigned url" ELSE None]

\* response_data of a run found: the metadata, and the artifacts when the
\* status is one of artifact_statuses.  s3_ok is whether get_test_artifacts
\* returns or raises, html_report whether the run's index.html exists.
response_data(test_run, s3_ok, html_report) ==
    [statusCode |-> 200, run_id |-> test_run.runId, brand |-> test_run.brand,
     environment |-> test_run.environment, status |-> test_run.status,
     locator |-> test_run.status \in artifact_statuses,
     artifacts |-> IF test_run.status \notin artifact_statuses THEN "null"
                   ELSE IF s3_ok THEN "attached" ELSE "error",
     reportUrl |-> IF test_run.status \in artifact_statuses /\ s3_ok /\ html_report
                   THEN "presigned url" ELSE None]

\* The response of either entry point from the lookup on; lookup_ok is
\* whether the first get_test_run returns or raises.
get_results(handler, tbl, run_id, brand, lookup_ok, s3_ok, html_report) ==
    IF ~lookup_ok
    THEN Response([statusCode |-> 500, message |-> "Internal server error",
                   db_error |-> "Failed to get test run",
                   looked |-> SubSeq(brands_looked(tbl, run_id, brand), 1, 1)]
                  @@ get_request(handler, run_id, brand))
    ELSE IF found_test_run(tbl, run_id, brand) = <<>>
    THEN Response([statusCode |-> 404, message |-> "Test run not found",
                   looked |-> brands_looked(tbl, run_id, brand)]
                  @@ get_request(handler, run_id, brand))
    ELSE Response(response_data(found_test_run(tbl, run_id, brand)[1], s3_ok,
                                html_report)
                  @@ [looked |-> brands_looked(tbl, run_id, brand)]
                  @@ get_request(handler, run_id, brand))

\* The event's pathParameters: the key absent, null, or a dict.
PathParameters == {"absent", "null", "dict"}

\* handlers/get_results.py handler.  run_id is the dict's runId, None when
\* it has none; the default {} stands in for an absent key only, so on null
\* path_parameters.get raises and the outer except answers.
get_results_handler(path_parameters, run_id, brand, lookup_ok, s3_ok, html_report) ==
    /\ path_parameters \in PathParameters
    /\ path_parameters # "dict" => run_id = None
    /\ resp' = [path_parameters |-> path_parameters] @@
               ( IF path_parameters = "null"
                 THEN Response([statusCode |-> 500,
                                message |-> "Internal server error"]
                               @@ get_request("lambda_get", None, brand))
                 ELSE IF run_id = None
                 THEN Response([statusCode |-> 400,
                                message |-> "Missing runId parameter"]
                               @@ get_request("lambda_get", None, brand))
                 ELSE get_results("lambda_get", table, run_id, brand, lookup_ok,
                                  s3_ok, html_report) )
    /\ UNCHANGED <<table, now, uuidCtr, last, api, wh>>

\* GET /results/{run_id}: the route always carries a run_id.
api_get_results(run_id, brand, lookup_ok, s3_ok, html_report) ==
    /\ run_id # None
    /\ resp' = get_results("api_get", table, run_id, brand, lookup_ok, s3_ok,
                           html_report)
    /\ UNCHANGED <<table, now, uuidCtr, last, api, wh>>

\* The runs stored: one under every status, its namesake under the other
\* brand, and a run of the other brand alone, also without a status.
GetRunData ==
    { [runId |-> "run-a", brand |-> "mweb", environment |-> "prod", status |-> st] :
        st \in Range(valid_statuses) }
    \cup { [runId |-> "run-a", brand |-> "webafrica", environment |-> "prod",
            status |-> st] : st \in {"triggered", "cancelled"} }
    \cup { [runId |-> "run-b", brand |-> "webafrica", environment |-> "prod",
            status |-> "passed"],
           [runId |-> "run-b", brand |-> "webafrica", environment |-> "prod"] }
GetRunIds == {"run-a", "run-b"}
GetBrands == {None, "mweb", "webafrica", "unknown"}

\* Runs are stored directly, at one instant; get-results requests arrive at
\* both entry points, with every run and brand, and with the lookup or the
\* artifact store failing.
GetNext ==
    \/ \E run_data \in GetRunData : ClientPut(run_data, TRUE)
    \/ \E r \in {None} \cup GetRunIds, b \in GetBrands :
            \/ get_results_handler("dict", r, b, TRUE, TRUE, TRUE)
            \/ api_get_results(r, b, TRUE, TRUE, TRUE)
    \/ \E p \in PathParameters, b \in {None, "mweb"} :
            get_results_handler(p, None, b, TRUE, TRUE, TRUE)
    \/ \E r \in GetRunIds, s3_ok, html_report \in BOOLEAN :
            \/ get_results_handler("dict", r, None, TRUE, s3_ok, html_report)
            \/ api_get_results(r, None, TRUE, s3_ok, html_report)
    \/ get_results_handler("dict", "run-a", None, FALSE, TRUE, TRUE)
    \/ api_get_results("run-a", "mweb", FALSE, TRUE, TRUE)

GetSpec == Init /\ [][GetNext]_vars

\* Timestamps YYYY-MM-DDTHH:MM:SSZ, as their characters.
IsoTimestamps ==
    { y \o <<"-">> \o m \o <<"-">> \o d \o <<"T">> \o h \o <<":">> \o mi
        \o <<":">> \o sec \o <<"Z">> :
        y \in {<<"2", "0", "2", "5">>, <<"1", "9", "9", "9">>},
        m \in {<<"0", "6">>, <<"1", "2">>},
        d \in {<<"0", "3">>, <<"3", "0">>},
        h \in {<<"1", "4">>, <<"0", "0">>},
        mi \in {<<"0", "0">>, <<"5", "9">>},
        sec \in {<<"0", "0">>, <<"0", "7">>} }

\* A record with one of these timestamps has been found.
NormalizeInit ==
    /\ table = {}
    /\ now = 0
    /\ uuidCtr = 0
    /\ last = NoLast
    /\ api = ApiIdle
    /\ wh = WebhookIdle
    /\ \E iso_timestamp \in IsoTimestamps :
            resp = [NoResponse EXCEPT !.iso_timestamp = iso_timestamp]

\* The handler makes the path segment of the record's timestamp.
normalize_timestamp ==
    /\ resp.handler = "none"
    /\ resp' = [resp EXCEPT !.handler = "normalize",
                            !.timestamp_for_s3 = timestamp_for_s3(resp.iso_timestamp)]
    /\ UNCHANGED <<table, now, uuidCtr, last, api, wh>>

NormalizeSpec == NormalizeInit /\ [][normalize_timestamp]_vars

-----------------------------------------------------------------------------
(* The webhook alone, reconciling the runs of one trigger.                  *)

WebhookNext ==
    \/ \E ok \in BOOLEAN : api_trigger_tests("mweb", "prod", "run-a", ok)
    \/ \E c \in StatusCodes : api_dispatch(c, TRUE)
    \/ api_update_write(TRUE)
    \/ \E q \in WebhookRequests, ok \in BOOLEAN : webhook_handler(q[1], q[2], ok)
    \/ \E ok \in BOOLEAN : webhook_update_write(ok)

WebhookSpec == Init /\ [][WebhookNext]_vars

-----------------------------------------------------------------------------
(* The service: requests arrive at the three handlers and are served        *)
(* concurrently, a store call at a time.                                    *)

TriggerBrands == {"mweb", "unknown"}
TriggerEnvironments == {"prod", "qa"}
ApiRunIds == {None, "run-a"}

\* The run identifiers a client has read from the store: those of the
\* records of earlier instants.
KnownRunIds == {i.runId : i \in {j \in table : TimestampTick[j.timestamp] < now}}
LambdaBrands == {None} \cup TriggerBrands

ServiceRequests ==
    { <<[BaseEvent EXCEPT !.inputs = LambdaInputs("run-a")], None>>,
      <<[BaseEvent EXCEPT !.inputs = ApiInputs("run-a")], None>> }

Next ==
    \/ Tick
    \/ \E b \in TriggerBrands, e \in TriggerEnvironments,
          r \in ApiRunIds \cup KnownRunIds, ok \in BOOLEAN :
            api_trigger_tests(b, e, r, ok)
    \/ \E c \in StatusCodes, ok \in BOOLEAN : api_dispatch(c, ok)
    \/ \E ok \in BOOLEAN : api_update_write(ok)
    \/ \E b \in LambdaBrands, e \in TriggerEnvironments, c \in StatusCodes,
          ok \in BOOLEAN : trigger_tests_handler(b, e, None, c, ok)
    \/ \E q \in ServiceRequests, ok \in BOOLEAN : webhook_handler(q[1], q[2], ok)
    \/ \E ok \in BOOLEAN : webhook_update_write(ok)

Spec == Init /\ [][Next]_vars

-----------------------------------------------------------------------------
(* The two trigger entry points alone, at one instant, under request bodies *)
(* of every kind: a brand and an environment allowed at both entry points,  *)
(* at one or at neither, or missing, with and without a runId.              *)

\* <<brand, environment>> of a request body.
RequestBodies ==
    { <<"mweb", "prod">>, <<"mweb", "dev">>, <<"mweb", "qa">>,
      <<"unknown", "prod">>, <<"unknown", "qa">> }
IncompleteBodies == { <<None, "prod">>, <<"mweb", None>> }
RequestRunIds == {None, "run-a"}

TriggerNext ==
    \/ \E q \in RequestBodies, r \in RequestRunIds, ok \in BOOLEAN :
            api_trigger_tests(q[1], q[2], r, ok)
    \/ \E c \in StatusCodes, ok \in BOOLEAN : api_dispatch(c, ok)
    \/ \E ok \in BOOLEAN : api_update_write(ok)
    \/ \E q \in RequestBodies \cup IncompleteBodies, r \in RequestRunIds,
          c \in StatusCodes, ok \in BOOLEAN :
            trigger_tests_handler(q[1], q[2], r, c, ok)

TriggerSpec == Init /\ [][TriggerNext]_vars

-----------------------------------------------------------------------------
(* Claims about the run store, under StoreSpec. *)

\* The item the last store call wrote, as the table holds it.
LastItem == CHOOSE i \in table : i.pk = last.pk /\ i.sk = last.sk
LastWrote == last.success /\ \E i \in table : i.pk = last.pk /\ i.sk = last.sk

\* C1: in every reachable state of the store, every record's gsi1pk is
\* 'STATUS#' followed by the record's status, whatever additional_data the
\* updates carried.
C1_StatusKeyMirrorsStatus ==
    \A i \in table : i.gsi1pk = make_gsi1pk(i.status)

\* An update has just changed a record's status to passed.
C1_Witness ==
    /\ last.op = "update"
    /\ LastWrote
    /\ LastItem.status = "passed"
    /\ LastItem.gsi1pk = "STATUS#passed"

\* C6: right after a put_test_run that succeeded, get_test_run with the
\* brand and runId written returns a record with the runId, brand and
\* environment written.
C6_PutThenGet ==
    (last.op = "put" /\ LastWrote) =>
        LET got == get_test_run(table, LastItem.brand, LastItem.runId)
        IN  /\ got # <<>>
            /\ got[1].runId = LastItem.runId
            /\ got[1].brand = LastItem.brand
            /\ got[1].environment = LastItem.environment

\* C7: update_test_run_status(brand, runId, s) applied twice in a row to an
\* existing record succeeds both times, and the second application leaves
\* the stored status and gsi1pk as the first left them.
C7_UpdateTwice ==
    \A b \in ClientBrands, r \in CustomRunIds, s \in ClientUpdateStatuses :
        get_test_run(table, b, r) # <<>> =>
            LET first == update_test_run_status(table, b, r, s, <<>>, TRUE)
                second == update_test_run_status(first.table, b, r, s, <<>>, TRUE)
            IN  /\ first.result.success
                /\ second.result.success
                /\ second.result.item[1].status = first.result.item[1].status
                /\ second.result.item[1].gsi1pk = first.result.item[1].gsi1pk
                /\ second.result.item[1].status = s
                /\ second.table = first.table

\* An update has just succeeded, and the same update applied again leaves
\* the table as it is.
C7_Witness ==
    /\ last.op = "update"
    /\ LastWrote
    /\ "runId" \in DOMAIN LastItem
    /\ get_test_run(table, LastItem.brand, LastItem.runId) = <<LastItem>>
    /\ update_test_run_status(table, LastItem.brand, LastItem.runId,
                              LastItem.status, <<>>, TRUE).table = table

-----------------------------------------------------------------------------
(* Claims about listing, under ListSpec. *)

Min(a, b) == IF a < b THEN a ELSE b

\* C8: a list request with requested limit N (the default when it names
\* none) is never answered with more than min(N, 100) items, nor with a
\* page limit above min(N, 100), at either entry point; a request that is
\* refused returns no items.
C8_ListAtMostLimit ==
    resp.handler \in {"lambda_list", "api_list"} =>
        LET N == IF resp.limit = <<>> THEN 25 ELSE resp.limit[1]
        IN  IF resp.statusCode = 200
            THEN /\ resp.count <= Min(N, 100)
                 /\ resp.page_limit <= Min(N, 100)
            ELSE resp.count = 0

\* A list of the two runs of a brand with limit 1 has returned one of them
\* and a pagination key.
C8_Witness ==
    /\ resp.handler = "lambda_list"
    /\ resp.statusCode = 200
    /\ resp.limit = <<1>>
    /\ resp.count = 1
    /\ resp.has_more
    /\ Cardinality(brand_condition(table, "mweb")) = 2

-----------------------------------------------------------------------------
(* Claims about the webhook, under WebhookSpec. *)

\* C4: with a secret configured, a workflow_run request whose signature does
\* not verify against its body is answered 401 and writes nothing to the
\* store.
C4_UnverifiedIsRejected ==
    ( /\ resp.handler = "webhook"
      /\ resp.message # "Ignored event type"
      /\ resp.secret # None
      /\ resp.signature # <<"sha256=", resp.secret, "this body">> )
    => ( /\ resp.statusCode = 401
         /\ resp.stored # "ok"
         /\ resp.updated # "ok" )

\* The fixed table of C9.
C9_Table ==
    [c \in Conclusions |->
        IF c = "success" THEN "passed"
        ELSE IF c \in {"cancelled", "skipped"} THEN "cancelled"
        ELSE "failed"]

\* C9: the status a processed webhook reports is the one the fixed table
\* gives for the conclusion, and every record a webhook step writes carries
\* exactly that status.
C9_MappedStatusWritten ==
    [][ /\ ( /\ resp'.handler = "webhook"
             /\ resp'.message = "Webhook processed successfully" )
           => resp'.status = C9_Table[resp'.conclusion]
        /\ (table' # table /\ api' = api)
           => \A i \in table' \ table :
                /\ i.status = C9_Table[resp'.conclusion]
                /\ i.gsi1pk = make_gsi1pk(C9_Table[resp'.conclusion]) ]_vars

\* A webhook with conclusion skipped has written a record with status
\* cancelled.
C9_Witness ==
    /\ resp.handler = "webhook"
    /\ resp.conclusion = "skipped"
    /\ resp.stored = "ok"
    /\ \E i \in table : i.githubRunId = "9001" /\ i.status = "cancelled"

-----------------------------------------------------------------------------
(* Claims about the service, under Spec. *)

\* C2: a record whose status is terminal never afterwards has the status
\* triggered or running, whatever the handlers do in whatever order.
C2_TerminalNeverReverts ==
    [][ \A i \in table : i.status \in TerminalStatuses =>
          \A j \in table' :
              (j.pk = i.pk /\ j.sk = i.sk) =>
                  j.status \notin {"triggered", "running"} ]_vars

\* POST /trigger-tests has named a run whose record is passed, its dispatch
\* has succeeded and its update to running has been refused by the store:
\* the record is passed still.
C2_Witness ==
    /\ resp.handler = "api_trigger"
    /\ resp.dispatch = "accepted"
    /\ resp.updated = "failed"
    /\ resp.db_error = "ValidationException"
    /\ get_test_run(table, resp.brand, resp.run_id) # <<>>
    /\ get_test_run(table, resp.brand, resp.run_id)[1].status = "passed"

\* C3: a trigger whose dispatch was refused (a status code other than 204)
\* is answered with an error, at both trigger entry points.
C3_RefusedDispatchIsError ==
    (resp.handler \in {"api_trigger", "lambda_trigger"} /\ resp.dispatch = "refused")
        => resp.statusCode >= 400

\* The records of a run.
records_of(brand, run_id) ==
    {i \in table : i.pk = make_pk(brand) /\ i.runId = run_id}

\* C5: for a trigger of mweb on prod, the run's record is triggered once
\* written, running once the dispatch succeeded and the store served the
\* update, and passed with a duration of zero or more seconds once a
\* completed webhook with conclusion success for the run was served.
C5_Lifecycle ==
    /\ (api.pc = "dispatch" /\ api.brand = "mweb" /\ api.environment = "prod")
       => \E i \in records_of(api.brand, api.run_id) : i.status = "triggered"
    /\ ( /\ resp.handler = "api_trigger"
         /\ resp.brand = "mweb"
         /\ resp.environment = "prod"
         /\ resp.dispatch = "accepted"
         /\ resp.db_error \notin {"storage error", "Failed to get test run"} )
       => \E i \in records_of(resp.brand, resp.run_id) : i.status = "running"
    /\ ( /\ resp.handler = "webhook"
         /\ resp.conclusion = "success"
         /\ resp.brand = "mweb"
         /\ resp.updated # "none"
         /\ resp.db_error \notin {"storage error", "Failed to get test run",
                                  "Test run not found"} )
       => \E i \in records_of(resp.brand, resp.run_id) :
            /\ i.status = "passed"
            /\ "duration" \in DOMAIN i
            /\ i.duration # <<>>
            /\ i.duration[1] >= 0

\* C10: no two records under the same brand have the same runId.
C10_RunIdUniqueWithinBrand ==
    \A i, j \in table : (i.pk = j.pk /\ i.runId = j.runId) => i = j

-----------------------------------------------------------------------------
(* Further claims about the run store, under TimestampSpec. *)

\* C11: no step of the store changes the timestamp or the gsi1sk of a record
\* it holds, whatever additional_data an update_test_run_status call
\* carries.
C11_TimestampNeverChanges ==
    [][ \A i \in table : \A j \in table' :
          (j.pk = i.pk /\ j.sk = i.sk) =>
              (j.timestamp = i.timestamp /\ j.gsi1sk = i.gsi1sk) ]_vars

\* additional_data without its entries named after a key attribute.
without_key_entries(additional_data) ==
    [k \in DOMAIN additional_data \ {"pk", "sk", "gsi1pk", "gsi1sk"} |->
        additional_data[k]]

\* C12: update_test_run_status on an existing record does what it does
\* without the entries of additional_data named pk, sk, gsi1pk or gsi1sk;
\* it leaves every record but the one its lookup resolved as it is, adds and
\* removes none, and leaves the target's pk, sk and gsi1sk as they are.
C12_UpdateChangesOnlyTarget ==
    \A b \in ClientBrands, r \in CustomRunIds, s \in ClientUpdateStatuses,
       ad \in ClientAdditionalData \cup ClientTimestampData :
        LET existing == get_test_run(table, b, r)
            u == update_test_run_status(table, b, r, s, ad, TRUE)
            plain == update_test_run_status(table, b, r, s,
                                            without_key_entries(ad), TRUE)
        IN  existing # <<>> =>
                /\ u = plain
                /\ (table \ {existing[1]}) \subseteq u.table
                /\ Cardinality(u.table) = Cardinality(table)
                /\ \E j \in u.table :
                        /\ j.pk = existing[1].pk
                        /\ j.sk = existing[1].sk
                        /\ j.gsi1sk = existing[1].gsi1sk
                /\ u.result.success =>
                        /\ u.result.item[1] \in u.table
                        /\ u.result.item[1].pk = existing[1].pk
                        /\ u.result.item[1].sk = existing[1].sk

\* The store holds two records after an update, and an update whose
\* additional_data names every key attribute succeeds on one of them and
\* changes it.
C12_Witness ==
    /\ last.op = "update"
    /\ LastWrote
    /\ Cardinality(table) = 2
    /\ \E b \in ClientBrands, r \in CustomRunIds :
          LET u == update_test_run_status(table, b, r, "passed",
                     [pk |-> make_pk("webafrica"),
                      sk |-> make_sk(isoformat(0), "run-b"),
                      gsi1pk |-> make_gsi1pk("failed"),
                      gsi1sk |-> make_gsi1sk(isoformat(0))], TRUE)
          IN  u.result.success /\ u.table # table

\* C13: update_test_run_status for a brand and runId without a record
\* returns a failure result with error 'Test run not found' and leaves the
\* table as it is, whatever the status, the additional_data and the state of
\* the storage.
C13_UpdateOfMissingRun ==
    \A b \in ClientBrands, r \in CustomRunIds, s \in ClientUpdateStatuses,
       ad \in ClientAdditionalData \cup ClientTimestampData, ok \in BOOLEAN :
        get_test_run(table, b, r) = <<>> =>
            update_test_run_status(table, b, r, s, ad, ok)
                = [table |-> table, result |-> Failure("Test run not found")]

\* An update for a run without a record has just returned 'Test run not
\* found', with records of other runs in the store.
C13_Witness ==
    /\ last.op = "update"
    /\ ~last.success
    /\ last.error = "Test run not found"
    /\ table # {}

-----------------------------------------------------------------------------
(* Claims about the trigger entry points, under TriggerSpec. *)

TriggerHandlers == {"api_trigger", "lambda_trigger"}

\* The environments each entry point allows.
AllowedEnvironments ==
    ("api_trigger" :> {"prod", "staging"})
        @@ ("lambda_trigger" :> {"prod", "staging", "dev"})

\* C14: a trigger request whose brand is not mweb or webafrica, or whose
\* environment is not one the entry point allows, is answered 400 without a
\* call of trigger_workflow or put_test_run; no request in flight past
\* validation and no record in the store carries such a brand or
\* environment.
C14_InvalidTriggerIsRefused ==
    /\ ( /\ resp.handler \in TriggerHandlers
         /\ \/ resp.brand \notin {"mweb", "webafrica"}
            \/ resp.environment \notin AllowedEnvironments[resp.handler] )
       => ( /\ resp.statusCode = 400
            /\ resp.dispatch = "none"
            /\ resp.inputs_run_id = None
            /\ resp.stored = "none" )
    /\ api.pc # "idle"
       => ( /\ api.brand \in {"mweb", "webafrica"}
            /\ api.environment \in AllowedEnvironments["api_trigger"] )
    /\ \A i \in table :
          /\ i.brand \in {"mweb", "webafrica"}
          /\ i.environment \in AllowedEnvironments[IF i.actor = None
                                                   THEN "api_trigger"
                                                   ELSE "lambda_trigger"]

\* POST /trigger-tests has refused the environment dev, which the Lambda
\* trigger has accepted: its record is in the store.
C14_Witness ==
    /\ resp.handler = "api_trigger"
    /\ resp.brand = "mweb"
    /\ resp.environment = "dev"
    /\ resp.statusCode = 400
    /\ \E i \in table : i.environment = "dev"

\* C15: POST /trigger-tests answers 500 when put_test_run fails, without a
\* call of trigger_workflow; a request is at or past its dispatch only with
\* its record in the store.
C15_FailedWriteIsError ==
    /\ (resp.handler = "api_trigger" /\ resp.stored = "failed")
       => ( /\ resp.statusCode = 500
            /\ resp.dispatch = "none"
            /\ resp.inputs_run_id = None )
    /\ api.pc \in {"dispatch", "write"}
       => records_of(api.brand, api.run_id) # {}
    /\ (resp.handler = "api_trigger" /\ resp.dispatch # "none")
       => records_of(resp.brand, resp.run_id) # {}

\* POST /trigger-tests has answered 500 for a run whose write failed, and
\* the store holds no record of the run.
C15_Witness ==
    /\ resp.handler = "api_trigger"
    /\ resp.stored = "failed"
    /\ resp.statusCode = 500
    /\ resp.run_id = "run-a"
    /\ records_of(resp.brand, resp.run_id) = {}

\* C16: the Lambda trigger answers 200 with its success message and status
\* triggered when the dispatch succeeded and put_test_run then failed, and
\* the store holds no record of the run it reports.
C16_LambdaSucceedsWithoutRecord ==
    ( /\ resp.handler = "lambda_trigger"
      /\ resp.dispatch = "accepted"
      /\ resp.stored = "failed" )
    => ( /\ resp.statusCode = 200
         /\ resp.message = "Test workflow triggered successfully"
         /\ resp.status = "triggered"
         /\ records_of(resp.brand, resp.run_id) = {} )

\* The Lambda trigger has answered 200 for a run whose write failed.
C16_Witness ==
    /\ resp.handler = "lambda_trigger"
    /\ resp.dispatch = "accepted"
    /\ resp.stored = "failed"
    /\ resp.db_error = "storage error"
    /\ resp.statusCode = 200

\* C17: a trigger request that was served and supplied a runId has that
\* runId in its response, in the workflow inputs and in the record written;
\* one that supplied none has a generated identifier in all three.
C17_SuppliedRunIdIsUsed ==
    (resp.handler \in TriggerHandlers /\ resp.statusCode = 200)
    => /\ resp.requested # None => resp.run_id = resp.requested
       /\ resp.requested = None => resp.run_id # None
       /\ resp.inputs_run_id = resp.run_id
       /\ resp.stored = "ok" => records_of(resp.brand, resp.run_id) # {}

-----------------------------------------------------------------------------
(* A further claim about the trigger entry points, under TriggerSpec. *)

\* C18: POST /trigger-tests whose dispatch succeeded and whose update to
\* running failed answers 200 with its success message, and the run has a
\* record with status triggered.
C18_FailedUpdateIsNotSurfaced ==
    ( /\ resp.handler = "api_trigger"
      /\ resp.dispatch = "accepted"
      /\ resp.updated = "failed" )
    => ( /\ resp.statusCode = 200
         /\ resp.message = "Test run triggered successfully"
         /\ resp.status = "triggered"
         /\ \E i \in records_of(resp.brand, resp.run_id) : i.status = "triggered" )

\* POST /trigger-tests has answered 200 after the store refused its update
\* to running, and the only record of the run is triggered.
C18_Witness ==
    /\ resp.handler = "api_trigger"
    /\ resp.statusCode = 200
    /\ resp.dispatch = "accepted"
    /\ resp.updated = "failed"
    /\ resp.db_error = "ValidationException"
    /\ \E i \in table : records_of(resp.brand, resp.run_id) = {i}
                          /\ i.status = "triggered"

-----------------------------------------------------------------------------
(* Claims about Get Result, under GetSpec. *)

GetHandlers == {"lambda_get", "api_get"}

\* The records of a run under a brand, in a table.
held(brand, run_id) == {i \in table : i.brand = brand /\ i.runId = run_id}

C20_ArtifactsIffTerminal ==
    \A h \in GetHandlers, r \in GetRunIds, b \in GetBrands :
        LET a == get_results(h, table, r, b, TRUE, TRUE, TRUE)
        IN  a.statusCode = 200 =>
                IF a.status \in TerminalStatuses
                THEN a.locator /\ a.artifacts = "attached"
                ELSE ~a.locator /\ a.artifacts = "null" /\ a.reportUrl = None

\* C21: when get_test_artifacts raises for a record found, Get Result
\* answers 200 with the record's runId, brand, environment and status, its
\* artifacts field holds the error description and reportUrl stays null.
C21_ArtifactFailureIsEmbedded ==
    \A h \in GetHandlers, r \in GetRunIds, b \in GetBrands, html_report \in BOOLEAN :
        LET found == get_results(h, table, r, b, TRUE, TRUE, html_report)
            a == get_results(h, table, r, b, TRUE, FALSE, html_report)
        IN  found.statusCode = 200 =>
                /\ a.statusCode = 200
                /\ a.run_id = r
                /\ \E i \in held(a.brand, r) :
                        /\ a.status = i.status
                        /\ a.environment = i.environment
                /\ a.looked = found.looked
                /\ a.status \in artifact_statuses =>
                        a.locator /\ a.artifacts = "error" /\ a.reportUrl = None
                /\ a.status \notin artifact_statuses =>
                        ~a.locator /\ a.artifacts = "null"

\* An entry point has answered 200 for a passed run whose artifacts
\* could not be fetched.
C21_Witness ==
    /\ resp.handler \in GetHandlers
    /\ resp.statusCode = 200
    /\ resp.status = "passed"
    /\ resp.locator
    /\ resp.artifacts = "error"
    /\ \E i \in held(resp.brand, resp.requested) : i.status = "passed"

\* C22: the Lambda get-results handler answers a request whose
\* pathParameters are absent, null or without runId with 400 and an error
\* naming runId, and calls get_test_run for no brand.
C22_MissingRunIdIsRefused ==
    ( /\ resp.handler = "lambda_get"
      /\ resp.requested = None )
    => ( /\ resp.statusCode = 400
         /\ resp.message = "Missing runId parameter"
         /\ resp.looked = <<>> )

-----------------------------------------------------------------------------
(* Claims about the filters of a list request, under FilterSpec. *)

ListHandlers == {"lambda_list", "api_list"}

\* A list request with a brand or a status outside its enumeration, or a
\* lastEvaluatedKey that is not JSON, has been answered.
InvalidListRequest ==
    /\ resp.handler \in ListHandlers
    /\ \/ resp.brand_parameter \notin {None} \cup Range(valid_brands)
       \/ resp.status_parameter \notin {None} \cup Range(valid_statuses)
       \/ resp.cursor = "malformed"

PageLimits == {1, 2, DefaultLimit}
TableStartKeys == {<<>>} \cup {<<key_of(i, TableKey)>> : i \in table}
IndexStartKeys == {<<>>} \cup {<<key_of(i, IndexKey)>> : i \in table}

\* C24: every item list_test_runs returns for a status and a brand has that
\* brand and that status, on every page.
C24_BrandAndStatusFilter ==
    \A b \in Range(valid_brands), s \in Range(valid_statuses), n \in PageLimits,
       k \in IndexStartKeys :
        LET r == list_test_runs(table, b, s, None, None, n, k, TRUE)
        IN  /\ r.ok
            /\ \A j \in DOMAIN r.items :
                    /\ r.items[j] \in table
                    /\ r.items[j].brand = b
                    /\ r.items[j].status = s

\* A list by status triggered and brand mweb has returned the one such run
\* while the store also holds a triggered run of webafrica.
C24_Witness ==
    /\ resp.handler \in ListHandlers
    /\ resp.statusCode = 200
    /\ resp.brand_parameter = "mweb"
    /\ resp.status_parameter = "triggered"
    /\ resp.count = 1
    /\ Cardinality({i \in table : i.brand = "mweb" /\ i.status = "triggered"}) = 1
    /\ \E i \in table : i.brand = "webafrica" /\ i.status = "triggered"

\* C25: every item list_test_runs returns for a request with neither brand
\* nor status is a record of the brand mweb, on every page.
C25_DefaultBrandScope ==
    \A n \in PageLimits, k \in TableStartKeys :
        LET r == list_test_runs(table, None, None, None, None, n, k, TRUE)
        IN  /\ r.ok
            /\ \A j \in DOMAIN r.items :
                    /\ r.items[j] \in table
                    /\ r.items[j].brand = "mweb"
                    /\ r.items[j].pk = make_pk("mweb")

\* A list without brand and status has returned the one run of mweb while
\* the store also holds a run of webafrica.
C25_Witness ==
    /\ resp.handler \in ListHandlers
    /\ resp.statusCode = 200
    /\ resp.brand_parameter = None
    /\ resp.status_parameter = None
    /\ resp.cursor = "none"
    /\ resp.count = 1
    /\ Cardinality(brand_condition(table, "mweb")) = 1
    /\ brand_condition(table, "webafrica") # {}

\* C26: the items list_test_runs returns for a brand are in descending
\* order of timestamp, and no record of the brand left out of the first
\* page is newer than a record in it.
C26_NewestFirst ==
    \A b \in Range(valid_brands), n \in PageLimits :
        LET r == list_test_runs(table, b, None, None, None, n, <<>>, TRUE)
            page == {r.items[j] : j \in DOMAIN r.items}
        IN  /\ \A j, k \in DOMAIN r.items :
                    j < k => TimestampTick[r.items[j].timestamp]
                                >= TimestampTick[r.items[k].timestamp]
            /\ \A i \in page, o \in brand_condition(table, b) \ page :
                    TimestampTick[o.timestamp] <= TimestampTick[i.timestamp]

\* C27: every item list_test_runs returns for a request with a startDate
\* or an endDate has a timestamp within the range, with and without a
\* brand and a status.
C27_DateRange ==
    \A b \in {None} \cup Range(valid_brands), s \in {None} \cup Range(valid_statuses),
       d \in ListDateRanges, n \in PageLimits :
        LET r == list_test_runs(table, b, s, d[1], d[2], n, <<>>, TRUE)
        IN  \A j \in DOMAIN r.items :
                /\ d[1] # None =>
                        TimestampTick[r.items[j].timestamp] >= TimestampTick[d[1]]
                /\ d[2] # None =>
                        TimestampTick[r.items[j].timestamp] <= TimestampTick[d[2]]

-----------------------------------------------------------------------------
(* Further claims about the webhook, under WebhookSpec. *)

\* A step of webhook_handler that answers.
WebhookAnswers ==
    /\ resp'.handler = "webhook"
    /\ api' = api /\ wh' = wh /\ now' = now

\* The request answered is not a completed workflow run: another event
\* type, or a JSON body with another action.
NotCompletedRun(r) ==
    \/ r.github_event # "workflow_run"
    \/ r.well_formed /\ r.action # "completed"

\* The handler does not refuse the signature of the request answered.
SignatureAccepted(r) ==
    \/ r.secret = None
    \/ r.signature = <<>>
    \/ verify_webhook_signature(r.signature, r.secret)

\* C28 as stated: every request that is not a completed workflow run is
\* answered 200 and leaves the store as it was.
C28_NotCompletedIs200 ==
    [][ (WebhookAnswers /\ NotCompletedRun(resp'))
            => (resp'.statusCode = 200 /\ table' = table) ]_vars

\* C28: a request that is not a completed workflow run leaves the store as
\* it was, with no update and no record created; it is answered 200, and
\* 401 when it is a workflow_run event whose signature is refused.
C28_NotCompletedIsIgnored ==
    [][ (WebhookAnswers /\ NotCompletedRun(resp'))
            => /\ table' = table
               /\ uuidCtr' = uuidCtr
               /\ resp'.stored = "none" /\ resp'.updated = "none"
               /\ resp'.statusCode =
                    IF resp'.github_event = "workflow_run" /\ ~SignatureAccepted(resp')
                    THEN 401 ELSE 200 ]_vars

\* A workflow_run event with the action requested, naming the brand and the
\* environment of a run in the store, has been answered 200 as ignored.
C28_Witness ==
    /\ resp.handler = "webhook"
    /\ resp.github_event = "workflow_run"
    /\ resp.well_formed
    /\ resp.action = "requested"
    /\ resp.statusCode = 200
    /\ resp.message = "Ignored action"
    /\ table # {}

\* The request answered is a completed workflow run the handler processes.
CompletedRun(r) ==
    /\ r.github_event = "workflow_run"
    /\ SignatureAccepted(r)
    /\ r.well_formed
    /\ r.action = "completed"

\* C29: a completed workflow run without both a run identifier and a brand,
\* but with a brand and an environment, adds exactly one record to a store
\* that serves the write, with the mapped status, that brand and that
\* environment; no record is removed or changed.
C29_FallbackRecordIsCreated ==
    [][ ( /\ WebhookAnswers
          /\ CompletedRun(resp')
          /\ ~(resp'.run_id # None /\ resp'.brand # None)
          /\ resp'.brand # None /\ resp'.environment # None
          /\ resp'.stored # "failed" )
            => /\ resp'.statusCode = 200
               /\ resp'.stored = "ok"
               /\ table \subseteq table'
               /\ Cardinality(table' \ table) = 1
               /\ \A i \in table' \ table :
                    /\ i.status = status_mapping(resp'.conclusion)
                    /\ i.gsi1pk = make_gsi1pk(i.status)
                    /\ i.brand = resp'.brand
                    /\ i.pk = make_pk(resp'.brand)
                    /\ i.environment = resp'.environment ]_vars

\* A failed run with a brand and an environment in its inputs and no runId
\* has been recorded next to the run it was triggered as.
C29_Witness ==
    /\ resp.handler = "webhook"
    /\ resp.conclusion = "failure"
    /\ resp.run_id = None
    /\ resp.stored = "ok"
    /\ \E i, j \in table :
            /\ i.githubRunId = "9001" /\ i.status = "failed"
            /\ i.brand = "mweb" /\ i.environment = "prod"
            /\ j.runId = "run-a" /\ j.status = "triggered"

\* C30: a completed workflow run with a run identifier and a brand whose
\* record the store does not hold is answered 200, with the update
\* reported as failed and the store as it was; a completed workflow run
\* is never answered 500.
C30_MissingTargetIs200 ==
    [][ (WebhookAnswers /\ CompletedRun(resp'))
            => /\ resp'.statusCode = 200
               /\ ( /\ resp'.run_id # None /\ resp'.brand # None
                    /\ get_test_run(table, resp'.brand, resp'.run_id) = <<>> )
                    => /\ table' = table
                       /\ resp'.updated = "failed"
                       /\ resp'.stored = "none"
                       /\ resp'.db_error \in {"Test run not found",
                                               "Failed to get test run"} ]_vars

\* A completed run naming run-a of mweb has been answered 200 with 'Test run
\* not found' while the store holds no such record.
C30_Witness ==
    /\ resp.handler = "webhook"
    /\ resp.statusCode = 200
    /\ resp.action = "completed"
    /\ resp.run_id = "run-a"
    /\ resp.brand = "mweb"
    /\ resp.updated = "failed"
    /\ resp.db_error = "Test run not found"
    /\ get_test_run(table, "mweb", "run-a") = <<>>

-----------------------------------------------------------------------------
(* Further claims about the run store, under RecordSpec. *)

\* C31: put_test_run on a store that fails the write returns a result with
\* success false and the error text, carrying no item, and leaves the table
\* as it was; a step that reports such a put does not change the table.
C31_FailedPutLeavesStore ==
    [][ /\ \A run_data \in ClientRunData :
            LET r == put_test_run(table, run_data, now, FALSE)
            IN  /\ ~r.result.success
                /\ r.result.error = "storage error"
                /\ r.result.item = <<>>
                /\ r.table = table
        /\ (now' = now /\ last'.op = "put" /\ ~last'.success)
                => table' = table /\ last'.error # None ]_vars

\* A put has just failed on a store that holds records.
C31_Witness ==
    /\ last.op = "put"
    /\ ~last.success
    /\ last.error = "storage error"
    /\ last.pk = None
    /\ table # {}

-----------------------------------------------------------------------------
(* A claim about the path segment of a timestamp, under NormalizeSpec. *)

\* The timestamp a 15-character segment YYYYMMDD_HHMMSS stands for.
iso_of_segment(segment) ==
    SubSeq(segment, 1, 4) \o <<"-">> \o SubSeq(segment, 5, 6) \o <<"-">>
        \o SubSeq(segment, 7, 8) \o <<"T">> \o SubSeq(segment, 10, 11) \o <<":">>
        \o SubSeq(segment, 12, 13) \o <<":">> \o SubSeq(segment, 14, 15) \o <<"Z">>

\* C32: the segment made of a timestamp YYYY-MM-DDTHH:MM:SSZ has 15
\* characters, YYYYMMDD_HHMMSS, with the digits of the timestamp in their
\* order; 2025-06-03T14:00:00Z gives 20250603_140000; different timestamps
\* give different segments, and the timestamp is recovered from its segment.
C32_SegmentOfTimestamp ==
    /\ resp.handler = "normalize" =>
            /\ resp.timestamp_for_s3 = timestamp_for_s3(resp.iso_timestamp)
            /\ Len(resp.timestamp_for_s3) = 15
            /\ resp.timestamp_for_s3[9] = "_"
            /\ \A k \in (1..15) \ {9} :
                    resp.timestamp_for_s3[k] \in {"0", "1", "2", "3", "4", "5", "6", "7", "8", "9"}
            /\ iso_of_segment(resp.timestamp_for_s3) = resp.iso_timestamp
            /\ \A other \in IsoTimestamps :
                    other # resp.iso_timestamp
                        => timestamp_for_s3(other) # resp.timestamp_for_s3
    /\ timestamp_for_s3(<<"2", "0", "2", "5", "-", "0", "6", "-", "0", "3", "T",
                          "1", "4", ":", "0", "0", ":", "0", "0", "Z">>)
            = <<"2", "0", "2", "5", "0", "6", "0", "3", "_", "1", "4", "0", "0", "0", "0">>

\* The segment of 2025-06-03T14:00:00Z has been made.
C32_Witness ==
    /\ resp.handler = "normalize"
    /\ resp.iso_timestamp = <<"2", "0", "2", "5", "-", "0", "6", "-", "0", "3", "T",
                              "1", "4", ":", "0", "0", ":", "0", "0", "Z">>
    /\ resp.timestamp_for_s3
            = <<"2", "0", "2", "5", "0", "6", "0", "3", "_", "1", "4", "0", "0", "0", "0">>

-----------------------------------------------------------------------------
(* A further claim about the trigger entry points, under TriggerSpec. *)

\* C34: at every step in which a trigger issues the dispatch, at either
\* entry point, the store already holds a record with the run's runId and
\* the status triggered.
C34_WriteBeforeDispatch ==
    [][ /\ (api.pc = "dispatch" /\ api'.pc # "dispatch")
            => \E i \in table : i.runId = api.run_id /\ i.status = "triggered"
        /\ ( /\ resp'.handler = "lambda_trigger"
             /\ resp'.dispatch # "none"
             /\ uuidCtr' = uuidCtr + 1 )
            => \E i \in table : i.runId = resp'.run_id /\ i.status = "triggered"
      ]_vars

-----------------------------------------------------------------------------
(* A triggered run and its completed webhook: the trigger succeeds, the CI  *)
(* run completes, and the webhook that carries back the inputs of the       *)
(* dispatch is delivered and processed, the store serving every call.       *)

LiveBrands == {"mweb", "webafrica"}
LiveRunIds == {"run-a"} \cup {uuid4(n) : n \in 1..MaxUuid}

\* The inputs the trigger that wrote the record dispatched: the Lambda
\* trigger, whose records carry the actor 'api', sends the identifier under
\* 'runId', POST /trigger-tests under 'run_id'.
dispatched_inputs(item) ==
    IF Get(item, "actor", None) = "api"
    THEN lambda_workflow_inputs(item.brand, item.environment, item.runId)
    ELSE [brand |-> item.brand, environment |-> item.environment,
          run_id |-> item.runId]

\* The completed workflow_run event of the run of a record.
completed_webhook(item, conclusion) ==
    [BaseEvent EXCEPT !.conclusion = conclusion, !.inputs = dispatched_inputs(item)]

\* The CI run of a triggered record completes and its webhook arrives, once:
\* no webhook has been answered yet.
Deliver ==
    \E i \in {j \in table : Get(j, "actor", None) # "unknown"},
       c \in {"success", "failure", "cancelled"} :
        /\ api.pc = "idle"
        /\ resp.handler # "webhook"
        /\ webhook_handler(completed_webhook(i, c), None, TRUE)

LiveNext ==
    \/ Tick
    \/ \E b \in LiveBrands, e \in {"prod", "staging"} :
            table = {} /\ api_trigger_tests(b, e, "run-a", TRUE)
    \/ api_dispatch(204, TRUE)
    \/ api_update_write(TRUE)
    \/ \E b \in LiveBrands, e \in {"prod", "staging"} :
            table = {} /\ trigger_tests_handler(b, e, None, 204, TRUE)
    \/ Deliver
    \/ webhook_update_write(TRUE)

\* Every step of a request in progress is taken, and the webhook of a run
\* is delivered.
LiveSpec ==
    /\ Init
    /\ [][LiveNext]_vars
    /\ WF_vars(api_dispatch(204, TRUE))
    /\ WF_vars(api_update_write(TRUE))
    /\ WF_vars(Deliver)
    /\ WF_vars(webhook_update_write(TRUE))

\* C33: under LiveSpec, every run that has a triggered record in the store
\* eventually has a record with a terminal status, whichever entry point
\* triggered it.
C33_TriggeredRunBecomesTerminal ==
    \A r \in LiveRunIds :
        (\E i \in table : i.runId = r /\ i.status = "triggered")
            ~> (\E i \in table : i.runId = r /\ i.status \in TerminalStatuses)

-----------------------------------------------------------------------------
(* A claim about the keys of the records, under TimestampSpec. *)

\* C35: in every reachable state the keys of every record agree with its
\* attributes: pk is built from brand, sk from timestamp and runId, gsi1sk
\* from timestamp.
C35_KeysAgreeWithAttributes ==
    \A i \in table :
        /\ i.pk = make_pk(i.brand)
        /\ i.sk = make_sk(i.timestamp, i.runId)
        /\ i.gsi1sk = make_gsi1sk(i.timestamp)

-----------------------------------------------------------------------------
(* A claim about the duration the webhook writes, under WebhookSpec. *)

\* C36: at every step in which the webhook writes to the store, the duration
\* it writes is updated_at minus created_at in seconds when both parse, a
\* difference of 0 included, and no duration is written otherwise: by the
\* update of a record, in its additional_data; by the put of a new record,
\* in the item stored.
C36_DurationIsTheDifference ==
    [][ /\ (wh.pc = "write" /\ wh'.pc = "idle") =>
              LET duration == duration_of(wh.event.created_at, wh.event.updated_at)
                  update_data == update_data_of(wh.event)
              IN  IF duration # <<>>
                  THEN /\ "duration" \in DOMAIN update_data
                       /\ update_data.duration = duration
                  ELSE "duration" \notin DOMAIN update_data
        /\ (resp'.handler = "webhook" /\ resp'.stored = "ok"
                /\ uuidCtr' = uuidCtr + 1) =>
              \A i \in table' \ table :
                  Get(i, "duration", <<>>) = resp'.duration
      ]_vars

-----------------------------------------------------------------------------
(* update_test_run_status a store call at a time: its lookup, then its      *)
(* write by the key the lookup found, while the store expires records and   *)
(* other updates of the same run are in flight.                             *)

\* existing_item = self.get_test_run(brand, run_id): the update returns when
\* it finds none, and otherwise goes on with the key of the item found.
ClientLookup(brand, run_id) ==
    LET existing == get_test_run(table, brand, run_id)
    IN  /\ last' = IF existing = <<>>
                   THEN LastOf("update", Failure("Test run not found"))
                   ELSE LastOf("lookup", Success(existing[1]))
        /\ UNCHANGED <<table, now, uuidCtr, api, wh, resp>>

\* self.table.update_item(Key = the key looked up, ...).  racing: another
\* update that looked up the same record is still to make its write.
ClientWrite(status, additional_data, racing) ==
    LET r == update_write(table, [pk |-> last.pk, sk |-> last.sk], status,
                          additional_data, TRUE)
    IN  /\ last.op = "lookup"
        /\ table' = r.table
        /\ last' = IF racing THEN last ELSE LastOf("update", r.result)
        /\ UNCHANGED <<now, uuidCtr, api, wh, resp>>

\* The store removes a record whose ttl has passed.  The clock of the model
\* spans seconds, not the ninety days of the ttl: any record may be one
\* written ninety days before.
Expire ==
    \E i \in table :
        /\ table' = table \ {i}
        /\ UNCHANGED <<now, uuidCtr, last, api, wh, resp>>

ExpiryNext ==
    \/ Tick
    \/ \E run_data \in ClientRunData : ClientPut(run_data, TRUE)
    \/ \E b \in ClientBrands, r \in CustomRunIds : ClientLookup(b, r)
    \/ \E s \in ClientUpdateStatuses, ad \in {<<>>, [duration |-> <<120>>]},
          racing \in BOOLEAN :
            ClientWrite(s, ad, racing)
    \/ Expire

ExpirySpec == Init /\ [][ExpiryNext]_vars

\* C37: in every reachable state every item of the store carries runId,
\* brand, environment, status and timestamp, also when records expire
\* between the lookup and the write of an update and when updates race.
C37_EveryItemIsARecord ==
    \A i \in table :
        {"runId", "brand", "environment", "status", "timestamp"} \subseteq DOMAIN i

-----------------------------------------------------------------------------
(* A claim about following the cursor of a listing, under FilterSpec. *)

\* The pages a client gets that lists with a limit and follows each
\* lastEvaluatedKey returned, over a store that does not change.
RECURSIVE pages_from(_, _, _, _, _)
pages_from(tbl, brand, status, limit, last_evaluated_key) ==
    LET result == list_test_runs(tbl, brand, status, None, None, limit,
                                 last_evaluated_key, TRUE)
    IN  <<result>> \o (IF result.lastEvaluatedKey = <<>> THEN <<>>
                       ELSE pages_from(tbl, brand, status, limit,
                                       result.lastEvaluatedKey))

\* The records a request with these filters is about.
records_matching(tbl, brand, status) ==
    {i \in tbl : /\ brand # None => i.brand = brand
                 /\ status # None => i.status = status}

\* The records of the pages up to the k-th.
returned_by(pages, k) == UNION {Range(pages[j].items) : j \in 1..k}

\* C38: for a brand-only, a status-only and a brand-plus-status request and
\* every limit, the pages followed to the end hold every matching record
\* exactly once, and a page comes with a cursor exactly when matching
\* records remain after it.
C38_CursorCoversEveryRecordOnce ==
    \A brand \in {None, "mweb"}, status \in {None, "triggered"}, limit \in PageLimits :
        (brand # None \/ status # None) =>
            LET pages == pages_from(table, brand, status, limit, <<>>)
                records == records_matching(table, brand, status)
                count == [j \in 0..Len(pages) |->
                            IF j = 0 THEN 0 ELSE Len(pages[j].items)]
                RECURSIVE total(_)
                total(j) == IF j = 0 THEN 0 ELSE count[j] + total(j - 1)
            IN  /\ returned_by(pages, Len(pages)) = records
                /\ total(Len(pages)) = Cardinality(records)
                /\ \A k \in 1..Len(pages) :
                        (pages[k].lastEvaluatedKey # <<>>)
                            <=> (records \ returned_by(pages, k) # {})

-----------------------------------------------------------------------------
(* A claim about a webhook delivered twice, under WebhookSpec. *)

\* What the claim compares of the store: the run records and their status.
runs_of(tbl) == {<<i.brand, i.runId, i.status>> : i \in tbl}

\* The last response answered a completed run's webhook that was processed
\* with the store serving its call.
Processed ==
    /\ resp.handler = "webhook"
    /\ resp.message = "Webhook processed successfully"
    /\ resp.db_error \notin {"storage error", "Failed to get test run"}

\* C39: a step in which the handler writes for a webhook it has just
\* processed, delivered again, leaves the run records and their status as
\* they were: the write of the update of an existing record, and the put of
\* a fallback record.
C39_SecondDeliveryChangesNothing ==
    [][ /\ (Processed /\ wh.pc = "write" /\ <<wh.event>> = resp.event)
            => runs_of(table') = runs_of(table)
        /\ (Processed /\ wh.pc = "idle" /\ wh'.pc = "idle" /\ api' = api
                /\ resp'.handler = "webhook" /\ resp'.event = resp.event)
            => runs_of(table') = runs_of(table)
      ]_vars

-----------------------------------------------------------------------------
(* A claim about records that share a runId, under RecordSpec. *)

\* The records of a brand that carry the run identifier.
records_sharing(tbl, pk, run_id) == {i \in tbl : i.pk = pk /\ i.runId = run_id}

\* The one of them created first.
earliest_created(records) ==
    CHOOSE i \in records :
        \A j \in records : TimestampTick[i.timestamp] <= TimestampTick[j.timestamp]

\* C40: among the records of a brand that share a runId, get_test_run
\* returns the earliest created, and a step of update_test_run_status that
\* succeeds modifies that record and leaves every other record as it was.
C40_FirstOfDuplicates ==
    [][ /\ \A b \in ClientBrands, r \in CustomRunIds :
              LET records == records_sharing(table, make_pk(b), r)
              IN  get_test_run(table, b, r) =
                      IF records = {} THEN <<>> ELSE <<earliest_created(records)>>
        /\ (last'.op = "update" /\ last'.success) =>
              \E i \in table :
                  /\ i = earliest_created(records_sharing(table, i.pk, i.runId))
                  /\ last'.pk = i.pk /\ last'.sk = i.sk
                  /\ table \ {i} \subseteq table'
                  /\ Cardinality(table') = Cardinality(table)
      ]_vars

\* Witness of C40: of two records that share brand and runId, the earlier
\* was updated and the later was not.
C40_Witness ==
    /\ last.op = "update" /\ last.success
    /\ \E i, j \in table :
          /\ i.pk = j.pk /\ i.runId = j.runId
          /\ TimestampTick[i.timestamp] < TimestampTick[j.timestamp]
          /\ last.pk = i.pk /\ last.sk = i.sk
          /\ i.status = "passed" /\ j.status # "passed"

=============================================================================
